---------------------------- MODULE Spec2Model ----------------------------
(***************************************************************************)
(* Acadefy client: the application shell (session id, request helper,      *)
(* namespaced storage), the dashboard controller, the tutor controller and *)
(* the profile controller, as state machines over the browser state they   *)
(* read and write.                                                         *)
(*                                                                         *)
(* A JavaScript string is a sequence of chunks: a chunk is a run of        *)
(* whitespace or a run of non-whitespace characters, with its length.      *)
(* trim() and .length are computed on that representation.                 *)
(***************************************************************************)
EXTENDS Integers, Sequences, FiniteSets, TLC

VARIABLES
    \* ---- browser storage and the shell (main.js)
    localStorage,        \* key -> stored item
    sessionId,           \* AcadefyApp.sessionId
    idClock,             \* number of identifiers generated so far
    loadCount,           \* page loads so far
    clearCount,          \* storage.clear() calls so far
    heldIds,             \* identifiers the shell held after init since the last clear
    genOnStored,         \* an identifier was generated although one was stored
    \* ---- apiRequest (main.js)
    apiPc, apiEndpoint, apiOutcome, apiRet,
    \* ---- tutor controller (part_000)
    isTyping, messageInput, chatView, messageHistory, messageCount,
    sendDisabled,        \* sendButton.disabled
    errorModalDisplay,   \* error-modal style.display
    historyPending,      \* the /tutor/history request of init is in flight
    tutorInFlight,       \* pending /tutor requests, each with the send's locals
    tutorIssued,         \* /tutor requests issued so far
    sendsDone,           \* sends that ran to their finally block
    lastOutcome,         \* how the last completed send ended
    lastSendEffect,      \* what the last sendMessage call did
    \* ---- profile controller: goals and confirmation modal (profile.js)
    goals, goalInput, preferences, pendingConfirmAction, modalDisplay,
    cbCount,             \* callbacks handed to showConfirmationModal so far
    cbStatus,            \* per callback: unused, pending, cancelled, replaced, fired
    cbInvoked,           \* per callback: number of invocations
    cbBadInvoke,         \* a callback was invoked that was not pending, or not by confirmAction
    toast,               \* the toast on screen
    docRequests,         \* document requests in flight
    \* ---- profile controller: file selection and upload (profile.js)
    fileInputFiles, selectedFilesShown, uploadBtnDisabled,
    lastValidation,      \* outcome of the last validateAndDisplayFiles call
    upload,              \* the running addDocumentFromFiles call
    uploadSent,          \* files sent to /upload-direct by the last batch
    \* ---- dashboard controller (part_000)
    progressData, recommendationsData, analyticsData,
    loadingDisplay, contentDisplay, emptyDisplay,
    loads,               \* running load sequences
    loadsStarted,        \* load sequences started so far
    lastLoad,            \* the load sequence that completed last
    \* ---- storage wrapper calls (main.js)
    storageCall,
    \* ---- tutor controller: exported files (part_000)
    downloads,
    \* ---- dashboard controller: the progress item rendered last (part_000)
    progressItem,
    \* ---- profile controller: statistics (profile.js)
    statsLoad, statistics, statsView,
    \* ---- tutor controller: the history answer came after a send (part_000)
    historyLate,         \* the history answer came after a send was issued
    historyReceived,     \* the history list that loadChatHistory rendered, if any
    \* ---- tutor controller: file attachments (part_000)
    attachedFiles, fileChips, chatUploads, chatSelections,
    \* ---- the page that was loaded: which controller the DOMContentLoaded handlers built
    page,
    \* ---- profile controller: the results list of the batch that ended last (profile.js)
    uploadDone,          \* the results of the batch that has just ended, until the next file action
    \* ---- browser: localStorage.setItem throws on this page (quota exceeded, storage disabled)
    setItemThrows,
    \* ---- the reference documents list (ghost: listIssued, renderedLists)
    listIssued, documentsShown, renderedLists

shellVars == <<localStorage, sessionId, idClock, loadCount, clearCount, heldIds,
               genOnStored>>
apiVars == <<apiPc, apiEndpoint, apiOutcome, apiRet>>
tutorVars == <<isTyping, messageInput, chatView, messageHistory, messageCount,
               sendDisabled, errorModalDisplay, historyPending, tutorInFlight, tutorIssued, sendsDone, lastOutcome, lastSendEffect>>
profileVars == <<goals, goalInput, preferences, pendingConfirmAction, modalDisplay,
                 cbCount, cbStatus, cbInvoked, cbBadInvoke, toast, docRequests>>
fileVars == <<fileInputFiles, selectedFilesShown, uploadBtnDisabled, lastValidation,
              upload, uploadSent>>
dashVars == <<progressData, recommendationsData, analyticsData, loadingDisplay,
              contentDisplay, emptyDisplay, loads, loadsStarted, lastLoad>>
storeVars == <<storageCall>>
exportVars == <<downloads>>
renderVars == <<progressItem>>
statsVars == <<statsLoad, statistics, statsView>>
raceVars == <<historyLate, historyReceived>>
attachVars == <<attachedFiles, fileChips, chatUploads, chatSelections>>
pageVars == <<page>>
batchVars == <<uploadDone>>
envVars == <<setItemThrows>>
docVars == <<listIssued, documentsShown, renderedLists>>
vars == <<shellVars, apiVars, tutorVars, profileVars, fileVars, dashVars, storeVars, exportVars, renderVars, statsVars, raceVars, attachVars, pageVars, batchVars, envVars, docVars>>

-----------------------------------------------------------------------------
(* Values *)

Null == [t |-> "null"]

\* the pages of the application: each builds its controller only when its own root
\* element is in the document
Pages == {"dashboard", "tutor", "profile"}

Word(id, n) == [ws |-> FALSE, len |-> n, id |-> id]
Space(n) == [ws |-> TRUE, len |-> n, id |-> " "]

RECURSIVE StrLen(_)
StrLen(s) == IF s = <<>> THEN 0 ELSE Head(s).len + StrLen(Tail(s))

RECURSIVE TrimStart(_)
TrimStart(s) ==
    IF s = <<>> THEN s
    ELSE IF Head(s).ws THEN TrimStart(Tail(s)) ELSE s

RECURSIVE TrimEnd(_)
TrimEnd(s) ==
    IF s = <<>> THEN s
    ELSE IF s[Len(s)].ws THEN TrimEnd(SubSeq(s, 1, Len(s) - 1)) ELSE s

\* String.prototype.trim
Trim(s) == TrimEnd(TrimStart(s))

SeqToSet(s) == {s[i] : i \in 1..Len(s)}

RECURSIVE SelectIdx(_, _, _)
SelectIdx(s, keep, i) ==
    IF i > Len(s) THEN <<>>
    ELSE (IF i \in keep THEN <<s[i]>> ELSE <<>>) \o SelectIdx(s, keep, i + 1)

-----------------------------------------------------------------------------
(* Shell: localStorage and the storage wrapper (main.js 244-285) *)

\* a storage key is the sequence of the pieces it is written from
Prefixed(key) == <<"acadefy_">> \o <<key>>
SessionKey == <<"acadefy_", "session_id">>
OtherKey == <<"theme">>
\* keys of other scripts that hold the prefix text, but not as their prefix
NoUnderscoreKey == <<"acadefy">>
InfixKey == <<"my_", "acadefy_", "cache">>
StorageKeys == {SessionKey, Prefixed("chat_history"), Prefixed("learning_goals"),
                Prefixed("user_preferences"), OtherKey, NoUnderscoreKey, InfixKey}

ContainsPrefix(key) == \E i \in 1..Len(key) : key[i] = "acadefy_"
\* key.startsWith('acadefy_')
StartsWithPrefix(key) == Len(key) >= 1 /\ key[1] = "acadefy_"

\* JSON.stringify / JSON.parse of the values the controllers store
JsonStringify(value) == [t |-> "json", text |-> value]
JsonParse(item) == item.text

\* storage.set(key, value): the storage after the call
StorageSet(ls, key, value) == [ls EXCEPT ![Prefixed(key)] = JsonStringify(value)]

\* storage.set(key, value) with its try/catch: when setItem throws, the exception is
\* caught, false is returned and the storage is as before
StorageSetCaught(ls, key, value, throws) ==
    IF throws THEN ls ELSE StorageSet(ls, key, value)

\* JSON.parse throws on an item that is not JSON text
Parses(item) == item.t = "json"

\* storage.get(key, defaultValue): a missing item and an item that does not
\* parse (the catch block) both give the default
StorageGet(ls, key, defaultValue) ==
    IF ls[Prefixed(key)] = Null THEN defaultValue
    ELSE IF ~Parses(ls[Prefixed(key)]) THEN defaultValue
    ELSE JsonParse(ls[Prefixed(key)])

\* storage.remove(key)
StorageRemove(ls, key) == [ls EXCEPT ![Prefixed(key)] = Null]

\* Object.keys(localStorage): the keys that hold an item
ObjectKeys(ls) == {k \in DOMAIN ls : ls[k] # Null}

RECURSIVE RemoveEach(_, _)
\* keys.forEach(key => localStorage.removeItem(key))
RemoveEach(ls, keys) ==
    IF keys = {} THEN ls
    ELSE LET key == CHOOSE k \in keys : TRUE
         IN  RemoveEach([ls EXCEPT ![key] = Null], keys \ {key})

\* storage.clear() when nothing fails
StorageClear(ls) == RemoveEach(ls, {k \in ObjectKeys(ls) : StartsWithPrefix(k)})

\* localStorage.setItem(key, string): the item stored
RawItem(value) == [t |-> "raw", text |-> value]

\* 'session_' + Date.now() + '_' + random: the n-th identifier generated
SessionIdValue(n) == [sid |-> n]

EmptyStorage == [k \in StorageKeys |-> IF k = OtherKey THEN RawItem("dark") ELSE Null]

-----------------------------------------------------------------------------
(* Shell: apiRequest (main.js 91-114) *)

\* what fetch() and response.json() can do
HttpStatuses == {200, 204, 299, 300, 404, 500}
JsonBodies == {[parses |-> FALSE],
               [parses |-> TRUE, value |-> Null],
               [parses |-> TRUE, value |-> [error |-> "server says no"]],
               [parses |-> TRUE, value |-> [response |-> "ok"]]}
NetErr == [kind |-> "neterr"]
Resp(status, body) == [kind |-> "resp", status |-> status, body |-> body]
FetchOutcomes == {NetErr} \cup {Resp(s, b) : s \in HttpStatuses, b \in JsonBodies}

ResponseOkLoose(status) == status < 400
\* response.ok
ResponseOk(status) == status >= 200 /\ status <= 299

ApiCatchJsonUncaught(o, err) ==
    IF o.kind = "resp" /\ err = "SyntaxError" THEN [thrown |-> TRUE, error |-> err]
    ELSE [thrown |-> FALSE, success |-> FALSE, error |-> err]
\* the catch block: every error of the try block becomes a failure result
ApiCatch(o, err) == [thrown |-> FALSE, success |-> FALSE, error |-> err]

\* apiRequest: the value returned (or the exception thrown) for a fetch outcome
ApiRequest(o) ==
    IF o.kind = "neterr" THEN ApiCatch(o, "TypeError: Failed to fetch")
    ELSE IF ~ResponseOk(o.status) THEN ApiCatch(o, "HTTP error! status")
    ELSE IF ~o.body.parses THEN ApiCatch(o, "SyntaxError")
    ELSE [thrown |-> FALSE, success |-> TRUE, data |-> o.body.value]

ApiEndpoints == {"/progress", "/tutor", "/documents"}

\* a caller invokes apiRequest; the network decides the outcome
ApiCall ==
    /\ apiPc = "idle"
    /\ \E e \in ApiEndpoints, o \in FetchOutcomes :
          /\ apiEndpoint' = e
          /\ apiOutcome' = o
    /\ apiPc' = "fetch"
    /\ apiRet' = Null
    /\ UNCHANGED <<shellVars, tutorVars, profileVars, fileVars, dashVars, storeVars, exportVars, renderVars, statsVars, raceVars, attachVars, pageVars, batchVars, envVars, docVars>>

\* await fetch(url, config) settles: rejected, or a response whose ok flag is tested
ApiFetchSettles ==
    /\ apiPc = "fetch"
    /\ IF apiOutcome.kind = "resp" /\ ResponseOk(apiOutcome.status)
       THEN apiPc' = "json" /\ apiRet' = apiRet
       ELSE apiPc' = "returned" /\ apiRet' = ApiRequest(apiOutcome)
    /\ UNCHANGED <<apiEndpoint, apiOutcome>>
    /\ UNCHANGED <<shellVars, tutorVars, profileVars, fileVars, dashVars, storeVars, exportVars, renderVars, statsVars, raceVars, attachVars, pageVars, batchVars, envVars, docVars>>

\* await response.json() settles and apiRequest returns
ApiJsonSettles ==
    /\ apiPc = "json"
    /\ apiRet' = ApiRequest(apiOutcome)
    /\ apiPc' = "returned"
    /\ UNCHANGED <<apiEndpoint, apiOutcome>>
    /\ UNCHANGED <<shellVars, tutorVars, profileVars, fileVars, dashVars, storeVars, exportVars, renderVars, statsVars, raceVars, attachVars, pageVars, batchVars, envVars, docVars>>

\* the caller takes the result
ApiConsumed ==
    /\ apiPc = "returned"
    /\ apiPc' = "idle"
    /\ UNCHANGED <<apiEndpoint, apiOutcome, apiRet>>
    /\ UNCHANGED <<shellVars, tutorVars, profileVars, fileVars, dashVars, storeVars, exportVars, renderVars, statsVars, raceVars, attachVars, pageVars, batchVars, envVars, docVars>>

-----------------------------------------------------------------------------
(* Tutor controller (part_000 331-865) *)

MaxSends == 2

\* what the user can have in the message box
MessageInputs == {<<>>, <<Space(2)>>, <<Word("hi", 2)>>,
                  <<Space(1), Word("yo", 2), Space(1)>>}

AiText == <<Word("answer", 6)>>
ErrorText == <<Word("Sorry, I encountered an error. Please try again.", 48)>>
ConnectText == <<Word("Sorry, I'm having trouble connecting.", 37)>>
WelcomeText == <<Word("welcome", 7)>>

\* an element appended to #chat-messages by addMessage
Msg(type, content, isError) == [type |-> type, content |-> content, isError |-> isError]
Welcome == Msg("ai", WelcomeText, FALSE)

\* what the backend can answer to POST /tutor
TutorOutcomes ==
    {NetErr,
     Resp(500, [parses |-> TRUE, value |-> [error |-> "server says no"]]),
     Resp(200, [parses |-> FALSE]),
     Resp(200, [parses |-> TRUE, value |-> Null]),
     Resp(200, [parses |-> TRUE, value |-> [error |-> "server says no"]]),
     Resp(200, [parses |-> TRUE, value |-> [response |-> AiText]])}

\* what the backend can answer to GET /tutor/history/{id}
HistoryPair == [user_message |-> <<Word("old", 3)>>, ai_response |-> <<Word("reply", 5)>>]
HistoryOutcomes ==
    {NetErr,
     Resp(200, [parses |-> TRUE, value |-> Null]),
     Resp(200, [parses |-> TRUE, value |-> [error |-> "server says no"]]),
     Resp(200, [parses |-> TRUE, value |-> [history |-> <<>>]]),
     Resp(200, [parses |-> TRUE, value |-> [history |-> <<HistoryPair>>]])}

\* toggleSendButton: sendButton.disabled
SendButtonDisabled(input, typing) == ~(StrLen(Trim(input)) > 0) \/ typing

SendGuardNoBusyFlag(typing) == TRUE
\* sendMessage, line 451: the busy-flag guard
SendGuard(typing) == ~typing

HideTypingOnSuccessOnly(outcome) == outcome # "success"
\* the finally block of sendMessage: hideTypingIndicator sets isTyping
HideTypingIndicator(outcome) == FALSE

\* the user edits the message box (input event: toggleSendButton)
TypeMessage ==
    /\ \E text \in MessageInputs :
          /\ text # messageInput
          /\ messageInput' = text
          /\ sendDisabled' = SendButtonDisabled(text, isTyping)
    /\ UNCHANGED <<isTyping, chatView, messageHistory, messageCount, errorModalDisplay,
                   historyPending, tutorInFlight, tutorIssued, sendsDone, lastOutcome,
                   lastSendEffect>>
    /\ UNCHANGED <<shellVars, apiVars, profileVars, fileVars, dashVars, storeVars, exportVars, renderVars, statsVars, raceVars, attachVars, pageVars, batchVars, envVars, docVars>>

\* sendMessage, up to its await: the body shared by the three triggers
SendMessage(trigger) ==
    /\ tutorIssued < MaxSends
    /\ IF ~SendGuard(isTyping) THEN
          /\ lastSendEffect' = [trigger |-> trigger, effect |-> "ignored: busy"]
          /\ UNCHANGED <<messageInput, sendDisabled, chatView, isTyping, tutorInFlight,
                         tutorIssued>>
       ELSE IF Trim(messageInput) = <<>> THEN
          /\ lastSendEffect' = [trigger |-> trigger, effect |-> "ignored: empty"]
          /\ UNCHANGED <<messageInput, sendDisabled, chatView, isTyping, tutorInFlight,
                         tutorIssued>>
       ELSE
          /\ lastSendEffect' = [trigger |-> trigger, effect |-> "sent"]
          /\ messageInput' = <<>>
          /\ chatView' = Append(chatView, Msg("user", Trim(messageInput), FALSE))
          /\ isTyping' = TRUE
          /\ sendDisabled' = SendButtonDisabled(<<>>, TRUE)
          /\ tutorInFlight' = Append(tutorInFlight, [message |-> Trim(messageInput)])
          /\ tutorIssued' = tutorIssued + 1
    /\ UNCHANGED <<messageHistory, messageCount, errorModalDisplay, historyPending,
                   sendsDone, lastOutcome>>
    /\ UNCHANGED <<shellVars, apiVars, profileVars, fileVars, dashVars, storeVars, exportVars, renderVars, statsVars, raceVars, attachVars, pageVars, batchVars, envVars, docVars>>

\* click on #send-button (a disabled button fires no click)
ClickSend == ~sendDisabled /\ SendMessage("click")

\* Enter without Shift in the message box
EnterKey == SendMessage("enter")

\* window.sendMessage()
GlobalSend == SendMessage("global")

\* how the code after the await ends for a result of apiRequest
SendOutcome(response) ==
    IF ~response.success THEN "failure"
    ELSE IF response.data = Null THEN "exception"
    ELSE IF "response" \notin DOMAIN response.data THEN "exception"
    ELSE "success"

HistoryEntrySwapped(message, answer) == [user |-> answer, ai |-> message]
\* the object pushed to messageHistory (its timestamp left out)
HistoryEntry(message, answer) == [user |-> message, ai |-> answer]

\* the /tutor request of a pending send resolves: the rest of sendMessage
TutorResponse ==
    /\ tutorInFlight # <<>>
    /\ \E i \in 1..Len(tutorInFlight), o \in TutorOutcomes :
          LET send == tutorInFlight[i]
              response == ApiRequest(o)
              outcome == SendOutcome(response)
              pair == HistoryEntry(send.message, response.data.response)
          IN  /\ tutorInFlight' = SelectIdx(tutorInFlight, (1..Len(tutorInFlight)) \ {i}, 1)
              /\ lastOutcome' = outcome
              /\ CASE outcome = "success" ->
                        /\ chatView' = Append(chatView, Msg("ai", response.data.response, FALSE))
                        /\ messageCount' = messageCount + 2
                        /\ messageHistory' = Append(messageHistory, pair)
                        /\ localStorage' = StorageSetCaught(localStorage, "chat_history",
                                                       Append(messageHistory, pair),
                                                       setItemThrows)
                        /\ UNCHANGED errorModalDisplay
                   [] outcome = "failure" ->
                        /\ chatView' = Append(chatView, Msg("ai", ErrorText, TRUE))
                        /\ errorModalDisplay' = "flex"
                        /\ UNCHANGED <<messageCount, messageHistory, localStorage>>
                   [] outcome = "exception" ->
                        /\ chatView' = Append(chatView, Msg("ai", ConnectText, TRUE))
                        /\ UNCHANGED <<messageCount, messageHistory, localStorage,
                                       errorModalDisplay>>
              /\ isTyping' = HideTypingIndicator(outcome)
              /\ sendDisabled' = SendButtonDisabled(messageInput, HideTypingIndicator(outcome))
    /\ sendsDone' = IF sendsDone < MaxSends THEN sendsDone + 1 ELSE sendsDone
    /\ UNCHANGED <<messageInput, historyPending, tutorIssued, lastSendEffect>>
    /\ UNCHANGED <<sessionId, idClock, loadCount, clearCount, heldIds, genOnStored>>
    /\ UNCHANGED <<apiVars, profileVars, fileVars, dashVars, storeVars, exportVars, renderVars, statsVars, raceVars, attachVars, pageVars, batchVars, envVars, docVars>>

\* closeErrorModal
CloseErrorModal ==
    /\ errorModalDisplay = "flex"
    /\ errorModalDisplay' = "none"
    /\ UNCHANGED <<isTyping, messageInput, chatView, messageHistory, messageCount,
                   sendDisabled, historyPending, tutorInFlight, tutorIssued, sendsDone,
                   lastOutcome, lastSendEffect>>
    /\ UNCHANGED <<shellVars, apiVars, profileVars, fileVars, dashVars, storeVars, exportVars, renderVars, statsVars, raceVars, attachVars, pageVars, batchVars, envVars, docVars>>

RECURSIVE HistoryMessages(_)
\* the forEach of loadChatHistory: two addMessage calls per interaction
HistoryMessages(history) ==
    IF history = <<>> THEN <<>>
    ELSE <<Msg("user", Head(history).user_message, FALSE),
           Msg("ai", Head(history).ai_response, FALSE)>> \o HistoryMessages(Tail(history))

\* chatMessages.querySelector('.message.ai-message'): the first ai element, if any
FirstAiMessage(view) ==
    LET idx == {i \in 1..Len(view) : view[i].type = "ai"}
    IN  IF idx = {} THEN <<>>
        ELSE <<view[CHOOSE i \in idx : \A j \in idx : i <= j]>>

\* the texts of the user bubbles of the view: the messages sent so far
RECURSIVE SentMessages(_)
SentMessages(view) ==
    IF view = <<>> THEN <<>>
    ELSE (IF Head(view).type = "user" THEN <<Head(view).content>> ELSE <<>>)
         \o SentMessages(Tail(view))

ServerPairsInvented(sent) ==
    <<[user_message |-> <<Word("hi", 2)>>, ai_response |-> AiText]>>
\* the pairs the backend holds for the messages it has received and answered
ServerPairs(sent) == [k \in 1..Len(sent) |-> [user_message |-> sent[k], ai_response |-> AiText]]

\* what the backend can answer to GET /tutor/history/{id} once the messages sent
\* have reached it: the earlier pairs, with or without the pairs of this session
HistoryOutcomesAfter(sent) ==
    HistoryOutcomes
    \cup {Resp(200, [parses |-> TRUE, value |-> [history |-> ServerPairs(sent)]])}

RestoredViewPairsFirst(view, history) == HistoryMessages(history) \o FirstAiMessage(view)
\* loadChatHistory lines 636-647: the view is emptied, the first ai element is put
\* back, then the interactions are appended
RestoredView(view, history) == FirstAiMessage(view) \o HistoryMessages(history)

\* the /tutor/history request of init resolves: the rest of loadChatHistory
HistoryResponse ==
    /\ historyPending
    /\ historyPending' = FALSE
    /\ historyLate' = (tutorIssued > 0)
    /\ \E o \in HistoryOutcomesAfter(SentMessages(chatView)) :
          LET response == ApiRequest(o)
          IN  IF response.success /\ response.data # Null
                 /\ "history" \in DOMAIN response.data
              THEN /\ chatView' = RestoredView(chatView, response.data.history)
                   /\ messageCount' = Len(response.data.history) * 2
                   /\ historyReceived' = [history |-> response.data.history]
              ELSE UNCHANGED <<chatView, messageCount, historyReceived>>
    /\ UNCHANGED <<isTyping, messageInput, messageHistory, sendDisabled, errorModalDisplay,
                   tutorInFlight, tutorIssued, sendsDone, lastOutcome, lastSendEffect>>
    /\ UNCHANGED <<shellVars, apiVars, profileVars, fileVars, dashVars, storeVars, exportVars, renderVars, statsVars, attachVars, pageVars, batchVars, envVars, docVars>>

-----------------------------------------------------------------------------
(* Profile controller: preferences, goals, confirmation modal (profile.js 1-406) *)

GoalMaxLen == 100
MaxGoals == 3
MaxShows == 3
MaxLoads == 3

DefaultGoals == <<
    <<Word("Master", 6), Space(1), Word("algebra", 7), Space(1), Word("fundamentals", 12)>>,
    <<Word("Improve", 7), Space(1), Word("writing", 7), Space(1), Word("skills", 6)>>,
    <<Word("Learn", 5), Space(1), Word("basic", 5), Space(1), Word("programming", 11)>> >>

DefaultPrefs == [difficulty |-> "intermediate", learningStyle |-> "mixed",
                 sessionLength |-> "medium", detailedExplanations |-> TRUE,
                 practiceProblems |-> TRUE, progressNotifications |-> FALSE]
\* what the preference form can hold when a change event fires
PrefForms == {DefaultPrefs, [DefaultPrefs EXCEPT !.difficulty = "advanced"]}
EmptyPrefs == [none |-> TRUE]

\* what the user can type into #new-goal or into the edit prompt
GoalInputs == {<<>>,
               <<Space(3)>>,
               <<Word("a", 1)>>,
               <<Space(2), Word("x", GoalMaxLen), Space(1)>>,
               <<Word("y", GoalMaxLen + 1)>>}

\* prompt() returns null when the user cancels
PromptCancelled == <<Null>>

Toast(message, type) == [message |-> message, type |-> type]

GoalTooLongOffByOne(goalText) == StrLen(goalText) >= GoalMaxLen
\* addGoal line 231, editGoal line 250: goalText.length > 100
GoalTooLong(goalText) == StrLen(goalText) > GoalMaxLen

\* Array.prototype.splice(index, 1) with a 0-based index
Splice(list, index) == SelectIdx(list, (1..Len(list)) \ {index + 1}, 1)

\* saveGoals: storage.set('learning_goals', this.goals), its return value unused
SaveGoals(ls, list, throws) == StorageSetCaught(ls, "learning_goals", list, throws)

\* addGoal: the user has typed text into #new-goal and presses Enter or the add button
AddGoal(text) ==
    /\ Len(goals) < MaxGoals
    /\ IF Trim(text) = <<>> THEN
          /\ toast' = Toast("Please enter a goal", "error")
          /\ goalInput' = text
          /\ UNCHANGED <<goals, localStorage>>
       ELSE IF GoalTooLong(Trim(text)) THEN
          /\ toast' = Toast("Goal is too long (max 100 characters)", "error")
          /\ goalInput' = text
          /\ UNCHANGED <<goals, localStorage>>
       ELSE
          /\ goals' = Append(goals, Trim(text))
          /\ goalInput' = <<>>
          /\ localStorage' = SaveGoals(localStorage, Append(goals, Trim(text)),
                                        setItemThrows)
          /\ toast' = Toast("Goal added successfully!", "success")
    /\ UNCHANGED <<preferences, pendingConfirmAction, modalDisplay, cbCount, cbStatus,
                   cbInvoked, cbBadInvoke, docRequests>>
    /\ UNCHANGED <<sessionId, idClock, loadCount, clearCount, heldIds, genOnStored>>
    /\ UNCHANGED <<apiVars, tutorVars, fileVars, dashVars, storeVars, exportVars, renderVars, statsVars, raceVars, attachVars, pageVars, batchVars, envVars, docVars>>

AddGoalAny == \E text \in GoalInputs : AddGoal(text)

\* editGoal(index): prompt() returns null on cancel, else the edited text
EditGoal ==
    /\ \E index \in 0..(Len(goals) - 1), text \in {PromptCancelled} \cup GoalInputs :
          IF text = PromptCancelled \/ Trim(text) = <<>> THEN
              UNCHANGED <<goals, localStorage, toast>>
          ELSE IF GoalTooLong(Trim(text)) THEN
              /\ toast' = Toast("Goal is too long (max 100 characters)", "error")
              /\ UNCHANGED <<goals, localStorage>>
          ELSE
              /\ goals' = [goals EXCEPT ![index + 1] = Trim(text)]
              /\ localStorage' = SaveGoals(localStorage,
                                            [goals EXCEPT ![index + 1] = Trim(text)],
                                            setItemThrows)
              /\ toast' = Toast("Goal updated successfully!", "success")
    /\ UNCHANGED <<goalInput, preferences, pendingConfirmAction, modalDisplay, cbCount,
                   cbStatus, cbInvoked, cbBadInvoke, docRequests>>
    /\ UNCHANGED <<sessionId, idClock, loadCount, clearCount, heldIds, genOnStored>>
    /\ UNCHANGED <<apiVars, tutorVars, fileVars, dashVars, storeVars, exportVars, renderVars, statsVars, raceVars, attachVars, pageVars, batchVars, envVars, docVars>>

\* onPreferenceChange: the form is read and saved without a toast
ChangePreference ==
    /\ \E form \in PrefForms :
          /\ form # preferences
          /\ preferences' = form
          /\ localStorage' = StorageSetCaught(localStorage, "user_preferences", form,
                                               setItemThrows)
    /\ UNCHANGED <<goals, goalInput, pendingConfirmAction, modalDisplay, cbCount, cbStatus,
                   cbInvoked, cbBadInvoke, toast, docRequests>>
    /\ UNCHANGED <<sessionId, idClock, loadCount, clearCount, heldIds, genOnStored>>
    /\ UNCHANGED <<apiVars, tutorVars, fileVars, dashVars, storeVars, exportVars, renderVars, statsVars, raceVars, attachVars, pageVars, batchVars, envVars, docVars>>

\* every callback still waiting in a shown dialog gets the status `to`
Retire(status, to) == [i \in 1..Len(status) |-> IF status[i] = "pending" THEN to ELSE status[i]]

\* showConfirmationModal(title, message, onConfirm, type): onConfirm is a new closure
ShowConfirmationModal(kind, arg) ==
    /\ cbCount < MaxShows
    /\ cbCount' = cbCount + 1
    /\ pendingConfirmAction' = [id |-> cbCount + 1, kind |-> kind, arg |-> arg]
    /\ modalDisplay' = "flex"
    /\ cbStatus' = Append(Retire(cbStatus, "replaced"), "pending")
    /\ cbInvoked' = Append(cbInvoked, 0)
    /\ UNCHANGED <<goals, goalInput, preferences, cbBadInvoke, toast, docRequests>>
    /\ UNCHANGED <<shellVars, apiVars, tutorVars, fileVars, dashVars, storeVars, exportVars, renderVars, statsVars, raceVars, attachVars, pageVars, batchVars, envVars, docVars>>

\* removeGoal(index), from the button rendered for goal number index
RemoveGoal == \E index \in 0..(Len(goals) - 1) : ShowConfirmationModal("removeGoal", index)

\* resetPreferences
ResetPreferences == ShowConfirmationModal("resetPreferences", 0)

\* clearHistory
ClearHistory == ShowConfirmationModal("clearHistory", 0)

\* resetProgress
ResetProgress == ShowConfirmationModal("resetProgress", 0)

\* removeDocument(docId), from the button rendered for a listed document
RemoveDocument == \E docId \in {"doc1"} : ShowConfirmationModal("removeDocument", docId)

ClearedPendingKept(pending) == pending
\* closeConfirmationModal line 396: the stored callback after the call
ClearedPending(pending) == Null

\* closeConfirmationModal: the cancel button, the close icon, window.closeConfirmationModal
CloseConfirmationModal ==
    /\ modalDisplay = "flex"
    /\ modalDisplay' = "none"
    /\ pendingConfirmAction' = ClearedPending(pendingConfirmAction)
    /\ cbStatus' = Retire(cbStatus, "cancelled")
    /\ UNCHANGED <<goals, goalInput, preferences, cbCount, cbInvoked, cbBadInvoke, toast,
                   docRequests>>
    /\ UNCHANGED <<shellVars, apiVars, tutorVars, fileVars, dashVars, storeVars, exportVars, renderVars, statsVars, raceVars, attachVars, pageVars, batchVars, envVars, docVars>>

\* Escape key: AcadefyApp.closeAllModals hides every .modal element
EscapeKey ==
    /\ modalDisplay = "flex"
    /\ modalDisplay' = "none"
    /\ UNCHANGED <<goals, goalInput, preferences, pendingConfirmAction, cbCount, cbStatus,
                   cbInvoked, cbBadInvoke, toast, docRequests>>
    /\ UNCHANGED <<shellVars, apiVars, tutorVars, fileVars, dashVars, storeVars, exportVars, renderVars, statsVars, raceVars, attachVars, pageVars, batchVars, envVars, docVars>>

NeedsNewIdAlways(sid) == TRUE
\* generateSessionId line 20: !this.sessionId
NeedsNewId(sid) == sid = Null

\* main.js line 8: localStorage.getItem('acadefy_session_id') || null
StoredSessionId(ls) == IF ls[SessionKey] # Null THEN ls[SessionKey].text ELSE Null

\* the shell after the script is evaluated and init has run on storage ls
LoadedSessionId(ls, clock) ==
    IF NeedsNewId(StoredSessionId(ls)) THEN SessionIdValue(clock + 1) ELSE StoredSessionId(ls)
LoadedStorage(ls, clock) ==
    IF NeedsNewId(StoredSessionId(ls))
    THEN [ls EXCEPT ![SessionKey] = RawItem(SessionIdValue(clock + 1))]
    ELSE ls
LoadedClock(ls, clock) == IF NeedsNewId(StoredSessionId(ls)) THEN clock + 1 ELSE clock


\* a GET /documents request in flight; n numbers the list requests of the page in
\* the order loadDocuments issued them
ListRequest(n) == [op |-> "list", n |-> n]

\* loadDocuments up to its await: the request joins the requests in flight
LoadDocuments(requests, issued) == Append(requests, ListRequest(issued + 1))

\* a load of the profile page on storage ls: AcadefyApp.init, then the AcadefyProfile
\* constructor (loadPreferences, loadGoals); the template's modal is hidden
ProfilePageLoadOn(ls, held) ==
    /\ loadCount < MaxLoads
    /\ loadCount' = loadCount + 1
    /\ sessionId' = LoadedSessionId(ls, idClock)
    /\ localStorage' = LoadedStorage(ls, idClock)
    /\ idClock' = LoadedClock(ls, idClock)
    /\ genOnStored' = (genOnStored \/ (LoadedClock(ls, idClock) # idClock /\ ls[SessionKey] # Null))
    /\ heldIds' = held \cup {LoadedSessionId(ls, idClock)}
    /\ preferences' = StorageGet(ls, "user_preferences", DefaultPrefs)
    /\ goals' = StorageGet(ls, "learning_goals", DefaultGoals)
    /\ goalInput' = <<>>
    /\ pendingConfirmAction' = Null
    /\ modalDisplay' = "none"
    /\ toast' = Null
    /\ docRequests' = <<ListRequest(1)>>
    /\ listIssued' = 1
    /\ documentsShown' = Null
    /\ renderedLists' = {}

\* the user reloads the profile page, or comes back to it
ProfilePageLoad ==
    /\ ProfilePageLoadOn(localStorage, heldIds)
    /\ cbStatus' = Retire(cbStatus, "discarded")
    /\ UNCHANGED <<clearCount, cbCount, cbInvoked, cbBadInvoke>>
    /\ UNCHANGED <<apiVars, tutorVars, fileVars, dashVars, storeVars, exportVars, renderVars, statsVars, raceVars, attachVars, pageVars, batchVars, envVars>>

\* confirmAction: the confirm button, window.confirmAction
ConfirmAction ==
    /\ IF pendingConfirmAction = Null THEN
          /\ modalDisplay' = "none"
          /\ cbStatus' = Retire(cbStatus, "cancelled")
          /\ UNCHANGED docVars
          /\ UNCHANGED <<goals, preferences, localStorage, toast, docRequests, cbInvoked,
                         cbBadInvoke, pendingConfirmAction, goalInput, sessionId, idClock,
                         loadCount, clearCount, heldIds, genOnStored>>
       ELSE
          LET cb == pendingConfirmAction IN
          /\ cbInvoked' = [cbInvoked EXCEPT ![cb.id] = @ + 1]
          /\ cbBadInvoke' = (cbBadInvoke \/ cbStatus[cb.id] # "pending")
          /\ cbStatus' = Retire([cbStatus EXCEPT ![cb.id] = "fired"], "cancelled")
          /\ CASE cb.kind = "removeGoal" ->
                    /\ goals' = Splice(goals, cb.arg)
                    /\ localStorage' = SaveGoals(localStorage, Splice(goals, cb.arg),
                                                  setItemThrows)
                    /\ toast' = Toast("Goal removed", "success")
                    /\ pendingConfirmAction' = Null
                    /\ modalDisplay' = "none"
                    /\ UNCHANGED docVars
                    /\ UNCHANGED <<preferences, docRequests, goalInput, sessionId, idClock,
                                   loadCount, clearCount, heldIds, genOnStored>>
               [] cb.kind = "resetPreferences" ->
                    /\ preferences' = DefaultPrefs
                    /\ localStorage' = StorageSetCaught(localStorage, "user_preferences",
                                                   DefaultPrefs, setItemThrows)
                    /\ toast' = Toast("Preferences reset to default", "success")
                    /\ pendingConfirmAction' = Null
                    /\ modalDisplay' = "none"
                    /\ UNCHANGED docVars
                    /\ UNCHANGED <<goals, docRequests, goalInput, sessionId, idClock,
                                   loadCount, clearCount, heldIds, genOnStored>>
               [] cb.kind = "clearHistory" ->
                    /\ localStorage' = StorageRemove(localStorage, "chat_history")
                    /\ toast' = Toast("Chat history cleared", "success")
                    /\ pendingConfirmAction' = Null
                    /\ modalDisplay' = "none"
                    /\ UNCHANGED docVars
                    /\ UNCHANGED <<goals, preferences, docRequests, goalInput, sessionId,
                                   idClock, loadCount, clearCount, heldIds, genOnStored>>
               [] cb.kind = "removeDocument" ->
                    /\ docRequests' = Append(docRequests, [op |-> "delete", id |-> cb.arg])
                    /\ pendingConfirmAction' = Null
                    /\ modalDisplay' = "none"
                    /\ UNCHANGED docVars
                    /\ UNCHANGED <<goals, preferences, localStorage, toast, goalInput,
                                   sessionId, idClock, loadCount, clearCount, heldIds, genOnStored>>
               [] cb.kind = "resetProgress" ->
                    \* storage.clear(), then window.location.reload(): the page loads anew
                    /\ clearCount' = clearCount + 1
                    /\ ProfilePageLoadOn(StorageClear(localStorage), {})
    /\ UNCHANGED cbCount
    /\ UNCHANGED <<apiVars, tutorVars, fileVars, dashVars, storeVars, exportVars, renderVars, statsVars, raceVars, attachVars, pageVars, batchVars, envVars>>

-----------------------------------------------------------------------------
(* Profile controller: file selection and upload (profile.js 488-698) *)

MaxFilesPerBatch == 5
MaxFileSize == 10 * 1024 * 1024
AllowedExtensions == {<<".", "pdf">>, <<".", "docx">>, <<".", "pptx">>, <<".", "txt">>}
MaxBatch == 1
MaxUploads == 2

\* a File: its name as the pieces between the dots, and its size in bytes
File(name, size) == [name |-> name, size |-> size]
NotesPdf == File(<<"notes", "pdf">>, 1024)
ReportPDF == File(<<"report", "v2", "PDF">>, MaxFileSize)
BigTxt == File(<<"big", "txt">>, MaxFileSize + 1)
VirusExe == File(<<"virus", "exe">>, 2048)
EssayDocx == File(<<"essay", "Docx">>, 0)
Readme == File(<<"README">>, 512)
FileUniverse == {NotesPdf, ReportPDF, BigTxt, VirusExe, EssayDocx, Readme}

\* 3 valid, 1 oversized, 1 of a wrong type; and a batch of 6
MixedBatch == <<NotesPdf, BigTxt, ReportPDF, VirusExe, EssayDocx>>
SixBatch == <<NotesPdf, ReportPDF, EssayDocx, NotesPdf, ReportPDF, EssayDocx>>

RECURSIVE SeqsUpTo(_, _)
SeqsUpTo(S, n) ==
    IF n = 0 THEN {<<>>}
    ELSE SeqsUpTo(S, n - 1) \cup {Append(q, x) : q \in SeqsUpTo(S, n - 1), x \in S}

\* what the user can select or drop
Batches == (SeqsUpTo(FileUniverse, MaxBatch) \ {<<>>}) \cup {MixedBatch, SixBatch}

\* String.prototype.toLowerCase on the name pieces in use
ToLowerCase(w) ==
    CASE w = "PDF" -> "pdf"
      [] w = "Docx" -> "docx"
      [] w = "README" -> "readme"
      [] OTHER -> w

\* '.' + file.name.split('.').pop().toLowerCase()
FileExtension(name) == <<".", ToLowerCase(name[Len(name)])>>

FileTooLargeInclusive(size) == size >= MaxFileSize
\* line 529: file.size > maxSize
FileTooLarge(size) == size > MaxFileSize

\* line 511: files.length > maxFiles
TooManyFiles(files) == Len(files) > MaxFilesPerBatch

RECURSIVE ValidateEach(_, _)
\* the forEach of validateAndDisplayFiles, from the accumulated validFiles and errors
ValidateEach(files, acc) ==
    IF files = <<>> THEN acc
    ELSE LET file == Head(files) IN
         IF FileExtension(file.name) \notin AllowedExtensions
         THEN ValidateEach(Tail(files),
                  [acc EXCEPT !.errors = Append(@, [file |-> file.name,
                                                    reason |-> "Unsupported file type"])])
         ELSE IF FileTooLarge(file.size)
         THEN ValidateEach(Tail(files),
                  [acc EXCEPT !.errors = Append(@, [file |-> file.name,
                                                    reason |-> "File too large (max 10MB)"])])
         ELSE ValidateEach(Tail(files), [acc EXCEPT !.validFiles = Append(@, file)])

Validation(files) == ValidateEach(files, [validFiles |-> <<>>, errors |-> <<>>])

\* validateAndDisplayFiles(files)
ValidateAndDisplayFiles(files) ==
    IF TooManyFiles(files) THEN
        /\ toast' = Toast("Maximum 5 files allowed", "error")
        /\ lastValidation' = [batch |-> files, tooMany |-> TRUE, accepted |-> <<>>,
                              errors |-> <<>>]
        /\ UNCHANGED <<selectedFilesShown, uploadBtnDisabled>>
    ELSE
        /\ toast' = IF Validation(files).errors # <<>>
                    THEN Toast(Validation(files).errors, "error") ELSE toast
        /\ selectedFilesShown' = Validation(files).validFiles
        /\ uploadBtnDisabled' = (Len(Validation(files).validFiles) = 0)
        /\ lastValidation' = [batch |-> files, tooMany |-> FALSE,
                              accepted |-> Validation(files).validFiles,
                              errors |-> Validation(files).errors]

\* the user picks files in the file dialog: the browser sets fileInput.files
HandleFileSelection ==
    /\ upload = Null
    /\ \E files \in Batches :
          /\ fileInputFiles' = files
          /\ ValidateAndDisplayFiles(files)
    /\ uploadSent' = <<>>
    /\ uploadDone' = Null
    /\ UNCHANGED upload
    /\ UNCHANGED <<goals, goalInput, preferences, pendingConfirmAction, modalDisplay,
                   cbCount, cbStatus, cbInvoked, cbBadInvoke, docRequests>>
    /\ UNCHANGED <<shellVars, apiVars, tutorVars, dashVars, storeVars, exportVars, renderVars, statsVars, raceVars, attachVars, pageVars, envVars, docVars>>

\* the user drops files on the drop zone: handleDroppedFiles sets fileInput.files
HandleDroppedFiles ==
    /\ upload = Null
    /\ \E files \in Batches :
          /\ fileInputFiles' = files
          /\ ValidateAndDisplayFiles(files)
    /\ uploadSent' = <<>>
    /\ uploadDone' = Null
    /\ UNCHANGED upload
    /\ UNCHANGED <<goals, goalInput, preferences, pendingConfirmAction, modalDisplay,
                   cbCount, cbStatus, cbInvoked, cbBadInvoke, docRequests>>
    /\ UNCHANGED <<shellVars, apiVars, tutorVars, dashVars, storeVars, exportVars, renderVars, statsVars, raceVars, attachVars, pageVars, envVars, docVars>>

\* removeSelectedFile(index), from the button rendered for displayed file number index
RemoveSelectedFileAt(index) ==
    /\ upload = Null
    /\ index \in 0..(Len(selectedFilesShown) - 1)
    /\ fileInputFiles' = Splice(fileInputFiles, index)
    /\ ValidateAndDisplayFiles(Splice(fileInputFiles, index))
    /\ uploadSent' = <<>>
    /\ uploadDone' = Null
    /\ UNCHANGED upload
    /\ UNCHANGED <<goals, goalInput, preferences, pendingConfirmAction, modalDisplay,
                   cbCount, cbStatus, cbInvoked, cbBadInvoke, docRequests>>
    /\ UNCHANGED <<shellVars, apiVars, tutorVars, dashVars, storeVars, exportVars, renderVars, statsVars, raceVars, attachVars, pageVars, envVars, docVars>>

\* a click on the remove button of one of the displayed files
RemoveSelectedFile == \E index \in 0..(MaxFilesPerBatch - 1) : RemoveSelectedFileAt(index)


IssueRequestAll(sent, files, i) == sent \o SubSeq(files, i, Len(files))

\* the loop body reaches `await fetch('/api/upload-direct', ...)` for files[i]: one
\* request is issued and the function is suspended until it resolves
IssueRequest(sent, files, i) == Append(sent, files[i])

\* addDocumentFromFiles up to its first await: the click on #upload-files-btn
AddDocumentFromFiles ==
    /\ upload = Null
    /\ ~uploadBtnDisabled
    /\ listIssued <= MaxUploads
    /\ IF Len(fileInputFiles) = 0 THEN
          /\ toast' = Toast("Please select files to upload", "error")
          /\ UNCHANGED <<upload, uploadSent, uploadBtnDisabled>>
       ELSE
          /\ uploadBtnDisabled' = TRUE
          /\ toast' = Toast("Uploading file(s)...", "info")
          /\ upload' = [files |-> fileInputFiles, i |-> 1, results |-> <<>>]
          /\ uploadSent' = IssueRequest(<<>>, fileInputFiles, 1)
    /\ UNCHANGED <<fileInputFiles, selectedFilesShown, lastValidation>>
    /\ uploadDone' = Null
    /\ UNCHANGED <<goals, goalInput, preferences, pendingConfirmAction, modalDisplay,
                   cbCount, cbStatus, cbInvoked, cbBadInvoke, docRequests>>
    /\ UNCHANGED <<shellVars, apiVars, tutorVars, dashVars, storeVars, exportVars, renderVars, statsVars, raceVars, attachVars, pageVars, envVars, docVars>>

\* what fetch('/api/upload-direct') and response.json() can give
UploadOutcomes == {[kind |-> "neterr"], [kind |-> "unparseable"],
                   [kind |-> "json", success |-> TRUE],
                   [kind |-> "json", success |-> FALSE]}

\* the entry pushed to results for a file, lines 660 and 666
UploadResult(file, o) ==
    IF o.kind = "json" THEN [file |-> file.name, success |-> o.success]
    ELSE [file |-> file.name, success |-> FALSE]

LoopStopsOnThrow(files, i, o) == i < Len(files) /\ o.kind = "json"

\* the for loop, line 639: the catch of the loop body ends the iteration only, so the
\* loop goes on to file i + 1 whatever the outcome of file i
LoopContinues(files, i, o) == i < Len(files)

\* the upload request of file i resolves: the rest of the loop body, then either the
\* next request or the code after the loop and the finally block
UploadResponse ==
    /\ upload # Null
    /\ \E o \in UploadOutcomes :
          LET results == Append(upload.results, UploadResult(upload.files[upload.i], o))
              successful == {k \in 1..Len(results) : results[k].success}
              failed == {k \in 1..Len(results) : ~results[k].success}
          IN  IF LoopContinues(upload.files, upload.i, o) THEN
                  /\ upload' = [upload EXCEPT !.i = @ + 1, !.results = results]
                  /\ uploadSent' = IssueRequest(uploadSent, upload.files, upload.i + 1)
                  /\ toast' = IF o.kind = "json" THEN Toast("Uploaded", "info") ELSE toast
                  /\ UNCHANGED <<fileInputFiles, selectedFilesShown, uploadBtnDisabled,
                                 docRequests, listIssued, uploadDone>>
              ELSE
                  /\ upload' = Null
                  /\ uploadSent' = uploadSent
                  /\ toast' = IF failed # {} THEN Toast("Failed to upload", "error")
                              ELSE Toast("Successfully uploaded", "success")
                  /\ fileInputFiles' = IF successful # {} THEN <<>> ELSE fileInputFiles
                  /\ selectedFilesShown' = IF successful # {} THEN <<>>
                                           ELSE selectedFilesShown
                  /\ docRequests' = IF successful # {}
                                    THEN LoadDocuments(docRequests, listIssued)
                                    ELSE docRequests
                  /\ listIssued' = IF successful # {} THEN listIssued + 1 ELSE listIssued
                  /\ uploadBtnDisabled' = FALSE
                  /\ uploadDone' = [files |-> upload.files, results |-> results]
    /\ UNCHANGED lastValidation
    /\ UNCHANGED <<goals, goalInput, preferences, pendingConfirmAction, modalDisplay,
                   cbCount, cbStatus, cbInvoked, cbBadInvoke>>
    /\ UNCHANGED <<shellVars, apiVars, tutorVars, dashVars, storeVars, exportVars, renderVars, statsVars, raceVars, attachVars, pageVars, envVars>>
    /\ UNCHANGED <<documentsShown, renderedLists>>

-----------------------------------------------------------------------------
(* Dashboard controller (part_000 6-318) *)

MaxRefreshes == 2

LoadSteps == <<"/progress", "/recommendations", "/analytics">>

ProgressEntry == [subject |-> "mathematics", accuracy_rate |-> 85]
NoProgress == [progress |-> <<>>]
SomeProgress == [progress |-> <<ProgressEntry>>]
Recommendations == [recommendations |-> <<>>]
Analytics == [analytics |-> [learning_streak |-> 1]]

\* what the fetch of each step of a load sequence can give
DashOutcomes(step) ==
    CASE step = 1 -> {NetErr} \cup {Resp(200, [parses |-> TRUE, value |-> v]) :
                                       v \in {NoProgress, SomeProgress}}
      [] step = 2 -> {Resp(500, [parses |-> TRUE, value |-> [error |-> "server says no"]]),
                      Resp(200, [parses |-> TRUE, value |-> Recommendations])}
      [] OTHER -> {Resp(200, [parses |-> FALSE]),
                   Resp(200, [parses |-> TRUE, value |-> Analytics])}

\* a load sequence that has issued its first fetch
NewLoad(id, refresh, overlapped) ==
    [id |-> id, step |-> 1, issued |-> <<LoadSteps[1]>>, results |-> <<>>,
     refresh |-> refresh, overlapped |-> overlapped]

InitialLoad == NewLoad(1, FALSE, FALSE)

\* loadDashboardData up to its first await leaves the three data fields as they are
FieldAtLoadStart(field) == field

\* hasData()
HasData(data) ==
    /\ data # Null
    /\ "progress" \in DOMAIN data
    /\ Len(data.progress) > 0

\* loadProgressData, loadRecommendations, loadAnalytics: the field after the response
FieldAfter(field, response) == IF response.success THEN response.data ELSE field

MarkOverlapped(running) == [k \in 1..Len(running) |-> [running[k] EXCEPT !.overlapped = TRUE]]

\* refreshDashboard up to the first await of loadDashboardData, run count times in
\* the same task
StartRefresh(count) ==
    /\ loadsStarted + count <= 1 + MaxRefreshes
    /\ toast' = Toast("Refreshing dashboard...", "info")
    /\ loadingDisplay' = "block"
    /\ contentDisplay' = "none"
    /\ emptyDisplay' = "none"
    /\ progressData' = FieldAtLoadStart(progressData)
    /\ recommendationsData' = FieldAtLoadStart(recommendationsData)
    /\ analyticsData' = FieldAtLoadStart(analyticsData)
    /\ loads' = MarkOverlapped(loads)
                \o [k \in 1..count |-> NewLoad(loadsStarted + k, TRUE,
                                               loads # <<>> \/ count > 1)]
    /\ loadsStarted' = loadsStarted + count
    /\ UNCHANGED lastLoad
    /\ UNCHANGED <<goals, goalInput, preferences, pendingConfirmAction, modalDisplay,
                   cbCount, cbStatus, cbInvoked, cbBadInvoke, docRequests>>
    /\ UNCHANGED <<shellVars, apiVars, tutorVars, fileVars, storeVars, exportVars, renderVars, statsVars, raceVars, attachVars, pageVars, batchVars, envVars, docVars>>

\* window.refreshDashboard(), the global function for inline handlers
GlobalRefresh == StartRefresh(1)

\* a click on the control that carries onclick="refreshDashboard()": its inline
\* handler runs, then the listener that setupEventListeners added to it
RefreshClick == StartRefresh(2)

\* the fetch of the current step of a running load sequence resolves: the rest of
\* that step, then the next fetch, or the display decision of loadDashboardData
DashResponse ==
    \E k \in 1..Len(loads) : \E o \in DashOutcomes(loads[k].step) :
       LET load == loads[k]
           response == ApiRequest(o)
           done == [load EXCEPT !.results = Append(@, response)]
           progress == IF load.step = 1 THEN FieldAfter(progressData, response)
                       ELSE progressData
           recommendations == IF load.step = 2
                              THEN FieldAfter(recommendationsData, response)
                              ELSE recommendationsData
           analytics == IF load.step = 3 THEN FieldAfter(analyticsData, response)
                        ELSE analyticsData
       IN  /\ progressData' = progress
           /\ recommendationsData' = recommendations
           /\ analyticsData' = analytics
           /\ IF load.step < Len(LoadSteps) THEN
                 /\ loads' = [loads EXCEPT ![k] =
                                 [done EXCEPT !.step = @ + 1,
                                              !.issued = Append(@, LoadSteps[load.step + 1])]]
                 /\ UNCHANGED <<loadingDisplay, contentDisplay, emptyDisplay, lastLoad,
                                toast>>
              ELSE
                 /\ loads' = Splice(loads, k - 1)
                 /\ loadingDisplay' = "none"
                 /\ contentDisplay' = IF HasData(progress) THEN "block" ELSE "none"
                 /\ emptyDisplay' = IF HasData(progress) THEN emptyDisplay ELSE "block"
                 /\ lastLoad' = [id |-> done.id, issued |-> done.issued,
                                 results |-> done.results, refresh |-> done.refresh,
                                 overlapped |-> done.overlapped,
                                 fields |-> <<progress, recommendations, analytics>>,
                                 content |-> contentDisplay',
                                 empty |-> emptyDisplay']
                 /\ toast' = IF load.refresh THEN Toast("Dashboard updated!", "success")
                             ELSE toast
           /\ UNCHANGED loadsStarted
           /\ UNCHANGED <<goals, goalInput, preferences, pendingConfirmAction,
                          modalDisplay, cbCount, cbStatus, cbInvoked, cbBadInvoke,
                          docRequests>>
           /\ UNCHANGED <<shellVars, apiVars, tutorVars, fileVars, storeVars, exportVars, renderVars, statsVars, raceVars, attachVars, pageVars, batchVars, envVars, docVars>>

-----------------------------------------------------------------------------
(* Shell: calls of the storage wrapper, with failing storage (main.js 244-285) *)

AppKeyNames == {"session_id", "chat_history", "learning_goals", "user_preferences"}
StoredValues == {<<>>, <<"item">>}
GetDefaults == {<<>>, <<"fallback">>}
CorruptItem == RawItem("{oops")

\* what a key can hold when the page is opened
ItemsOf(k) ==
    IF k = SessionKey THEN {Null}
    ELSE IF k = Prefixed("chat_history") THEN {Null, JsonStringify(<<"item">>), CorruptItem}
    ELSE IF k \in {Prefixed(name) : name \in AppKeyNames} THEN {Null}
    ELSE {Null, RawItem("dark")}

\* the storages a page can be opened on
AnyStorages ==
    {ls \in [StorageKeys -> {Null, JsonStringify(<<"item">>), CorruptItem, RawItem("dark")}] :
        \A k \in StorageKeys : ls[k] \in ItemsOf(k)}

StorageCatchRethrows(ret) == [thrown |-> TRUE, ret |-> ret]
\* the catch block of each wrapper method: log, and return false or the default
StorageCatch(ret) == [thrown |-> FALSE, ret |-> ret]

Returned(ret) == [thrown |-> FALSE, ret |-> ret]

\* a caller that followed the wrapper call: what it got
CallRecord(op, key, arg, fault, out) ==
    [op |-> op, key |-> key, arg |-> arg, fault |-> fault, thrown |-> out.thrown,
     ret |-> out.ret]

StoreFrame ==
    /\ UNCHANGED <<sessionId, idClock, loadCount, clearCount, heldIds, genOnStored>>
    /\ UNCHANGED <<apiVars, tutorVars, profileVars, fileVars, dashVars, exportVars, renderVars, statsVars, raceVars, attachVars, pageVars, batchVars, envVars, docVars>>

\* storage.set(key, value); fault: JSON.stringify or setItem throws
StorageSetCall ==
    \E key \in AppKeyNames \ {"session_id"}, value \in StoredValues, fault \in BOOLEAN :
       /\ localStorage' = IF fault THEN localStorage ELSE StorageSet(localStorage, key, value)
       /\ storageCall' = CallRecord("set", key, value, fault,
                            IF fault THEN StorageCatch(FALSE) ELSE Returned(TRUE))
       /\ StoreFrame

\* storage.get(key, defaultValue); fault: getItem throws
StorageGetCall ==
    \E key \in AppKeyNames \ {"session_id"}, defaultValue \in GetDefaults, fault \in BOOLEAN :
       LET item == localStorage[Prefixed(key)] IN
       /\ localStorage' = localStorage
       /\ storageCall' = CallRecord("get", key, defaultValue,
                            fault \/ (item # Null /\ ~Parses(item)),
                            IF fault THEN StorageCatch(defaultValue)
                            ELSE IF item = Null THEN Returned(defaultValue)
                            ELSE IF ~Parses(item) THEN StorageCatch(defaultValue)
                            ELSE Returned(JsonParse(item)))
       /\ StoreFrame

\* storage.remove(key); fault: removeItem throws
StorageRemoveCall ==
    \E key \in AppKeyNames, fault \in BOOLEAN :
       /\ localStorage' = IF fault THEN localStorage ELSE StorageRemove(localStorage, key)
       /\ storageCall' = CallRecord("remove", key, <<>>, fault,
                            IF fault THEN StorageCatch(FALSE) ELSE Returned(TRUE))
       /\ StoreFrame

\* storage.clear(); fault: reading the keys of localStorage throws
StorageClearCall ==
    \E fault \in BOOLEAN :
       /\ localStorage' = IF fault THEN localStorage ELSE StorageClear(localStorage)
       /\ storageCall' = CallRecord("clear", "", <<>>, fault,
                            IF fault THEN StorageCatch(FALSE) ELSE Returned(TRUE))
       /\ StoreFrame

-----------------------------------------------------------------------------
(* Tutor controller: clearing and exporting the chat (part_000 661-698) *)

MaxExports == 1

\* clearChat
ClearChat ==
    /\ chatView' = FirstAiMessage(chatView)
    /\ messageHistory' = <<>>
    /\ messageCount' = 0
    /\ localStorage' = StorageSetCaught(localStorage, "chat_history", <<>>,
                                         setItemThrows)
    /\ toast' = Toast("Chat cleared", "success")
    /\ UNCHANGED <<isTyping, messageInput, sendDisabled, errorModalDisplay, historyPending,
                   tutorInFlight, tutorIssued, sendsDone, lastOutcome, lastSendEffect>>
    /\ UNCHANGED <<sessionId, idClock, loadCount, clearCount, heldIds, genOnStored>>
    /\ UNCHANGED <<goals, goalInput, preferences, pendingConfirmAction, modalDisplay,
                   cbCount, cbStatus, cbInvoked, cbBadInvoke, docRequests>>
    /\ UNCHANGED <<apiVars, fileVars, dashVars, storeVars, exportVars, renderVars, statsVars, raceVars, attachVars, pageVars, batchVars, envVars, docVars>>

\* the object that exportChat serialises
ChatData(sid, count, history) ==
    [sessionId |-> sid, messageCount |-> count, messages |-> history]

\* AcadefyUtils.downloadAsFile(dataStr, filename): one more file is downloaded
DownloadAsFile(files, dataStr, filename) ==
    Append(files, [data |-> dataStr, filename |-> filename])

NothingToExportWhenShort(history) == Len(history) <= 1
\* exportChat line 681: this.messageHistory.length === 0
NothingToExport(history) == Len(history) = 0

\* exportChat
ExportChat ==
    /\ Len(downloads) < MaxExports
    /\ IF NothingToExport(messageHistory) THEN
          /\ toast' = Toast("No chat history to export", "info")
          /\ UNCHANGED downloads
       ELSE
          /\ downloads' = DownloadAsFile(downloads,
                             JsonStringify(ChatData(sessionId, messageCount, messageHistory)),
                             <<"acadefy-chat-", sessionId, ".json">>)
          /\ toast' = Toast("Chat exported successfully", "success")
    /\ UNCHANGED <<goals, goalInput, preferences, pendingConfirmAction, modalDisplay,
                   cbCount, cbStatus, cbInvoked, cbBadInvoke, docRequests>>
    /\ UNCHANGED <<shellVars, apiVars, tutorVars, fileVars, dashVars, storeVars, renderVars, statsVars, raceVars, attachVars, pageVars, batchVars, envVars, docVars>>

-----------------------------------------------------------------------------
(* Dashboard controller: rendering a progress item (part_000 135-155) *)

\* accuracy_rate is a number with one decimal: it is held in tenths of a percent
MaxAccuracy == 1000
Tenths(percent) == percent * 10
AccuracyRates == 0..MaxAccuracy

AccuracyColorStrict(rate) ==
    IF rate > Tenths(80) THEN "var(--secondary-color)"
    ELSE IF rate > Tenths(60) THEN "var(--accent-color)"
    ELSE "var(--danger-color)"
\* accuracyColor of createProgressItem
AccuracyColor(rate) ==
    IF rate >= Tenths(80) THEN "var(--secondary-color)"
    ELSE IF rate >= Tenths(60) THEN "var(--accent-color)"
    ELSE "var(--danger-color)"

\* createProgressItem(progress), for an entry of the progress list
CreateProgressItem ==
    /\ \E rate \in AccuracyRates :
          progressItem' = [subject |-> "Mathematics", accuracy_rate |-> rate,
                           accuracyColor |-> AccuracyColor(rate)]
    /\ UNCHANGED <<shellVars, apiVars, tutorVars, profileVars, fileVars, dashVars, storeVars, exportVars, statsVars, raceVars, attachVars, pageVars, batchVars, envVars, docVars>>

-----------------------------------------------------------------------------
(* Profile controller: statistics (profile.js 280-324) *)

MaxSubjects == 2

\* this.statistics = {}
EmptyStatistics == [set |-> FALSE]
Stats(days, messages, subjects, achievements) ==
    [set |-> TRUE, daysActive |-> days, totalMessages |-> messages,
     subjectsExplored |-> subjects, achievements |-> achievements]

\* what /progress can answer to loadStatistics
OverallStats == {[total_subjects |-> s, total_interactions |-> i] : s \in {0, 3}, i \in {0, 12}}
StatsProgressOutcomes ==
    {NetErr, Resp(500, [parses |-> TRUE, value |-> [error |-> "server says no"]]),
     Resp(200, [parses |-> TRUE, value |-> Null]),
     Resp(200, [parses |-> TRUE, value |-> [progress |-> <<>>]])}
    \cup {Resp(200, [parses |-> TRUE, value |-> [overall_stats |-> st]]) : st \in OverallStats}

\* what /analytics can answer to loadStatistics
SubjectStat == {[skill_level |-> l, completion |-> c] : l \in {6, 7}, c \in {79, 80}}
AnalyticsValues ==
    {[daily_interactions |-> days, subject_statistics |-> subjects] :
        days \in SUBSET {"mon", "tue"}, subjects \in SeqsUpTo(SubjectStat, MaxSubjects)}
StatsAnalyticsOutcomes ==
    {NetErr, Resp(200, [parses |-> FALSE]),
     Resp(200, [parses |-> TRUE, value |-> [error |-> "server says no"]])}
    \cup {Resp(200, [parses |-> TRUE, value |-> [analytics |-> a]]) : a \in AnalyticsValues}

\* the filter of line 303: subjects with skill_level >= 7 or completion >= 80
Achievements(subjects) ==
    Cardinality({i \in 1..Len(subjects) :
                    subjects[i].skill_level >= 7 \/ subjects[i].completion >= 80})

\* the stats object after the two if blocks; an analytics answer without the
\* analytics field throws at analytics.daily_interactions
StatsThrows(analyticsResponse) ==
    /\ analyticsResponse.success
    /\ analyticsResponse.data # Null
    /\ "analytics" \notin DOMAIN analyticsResponse.data

ComputedStats(progressResponse, analyticsResponse) ==
    LET hasProgress == /\ progressResponse.success
                       /\ progressResponse.data # Null
                       /\ "overall_stats" \in DOMAIN progressResponse.data
        hasAnalytics == analyticsResponse.success /\ analyticsResponse.data # Null
    IN  Stats(IF hasAnalytics
              THEN Cardinality(analyticsResponse.data.analytics.daily_interactions) ELSE 0,
              IF hasProgress THEN progressResponse.data.overall_stats.total_interactions
              ELSE 0,
              IF hasProgress THEN progressResponse.data.overall_stats.total_subjects ELSE 0,
              IF hasAnalytics
              THEN Achievements(analyticsResponse.data.analytics.subject_statistics) ELSE 0)

RenderStatisticsOnes(st) ==
    IF st.set THEN [daysActive |-> st.daysActive, totalMessages |-> st.totalMessages,
                    subjectsExplored |-> st.subjectsExplored,
                    achievements |-> st.achievements]
    ELSE [daysActive |-> 1, totalMessages |-> 1, subjectsExplored |-> 1, achievements |-> 1]
\* renderStatistics: the four texts, each this.statistics.<field> || 0
RenderStatistics(st) ==
    IF st.set THEN [daysActive |-> st.daysActive, totalMessages |-> st.totalMessages,
                    subjectsExplored |-> st.subjectsExplored,
                    achievements |-> st.achievements]
    ELSE [daysActive |-> 0, totalMessages |-> 0, subjectsExplored |-> 0, achievements |-> 0]

StatsFrame ==
    UNCHANGED <<shellVars, apiVars, tutorVars, profileVars, fileVars, dashVars, storeVars, exportVars, renderVars, raceVars, attachVars, pageVars, batchVars, envVars, docVars>>

\* the /progress request of loadStatistics resolves: the /analytics request is issued
StatsProgressResponse ==
    /\ statsLoad.pc = "progress"
    /\ \E o \in StatsProgressOutcomes :
          statsLoad' = [pc |-> "analytics", progressResponse |-> ApiRequest(o)]
    /\ UNCHANGED <<statistics, statsView>>
    /\ StatsFrame

\* the /analytics request resolves: the rest of loadStatistics
StatsAnalyticsResponse ==
    /\ statsLoad.pc = "analytics"
    /\ \E o \in StatsAnalyticsOutcomes :
          LET analyticsResponse == ApiRequest(o) IN
          /\ statsLoad' = [pc |-> "done", progressResponse |-> statsLoad.progressResponse,
                           analyticsResponse |-> analyticsResponse, thrown |-> FALSE]
          /\ statistics' = IF StatsThrows(analyticsResponse) THEN statistics
                           ELSE ComputedStats(statsLoad.progressResponse, analyticsResponse)
          /\ statsView' = RenderStatistics(statistics')
    /\ StatsFrame

-----------------------------------------------------------------------------
(* Tutor controller: file attachments (part_000, AcadefyTutor) *)

MaxSelections == 2

\* the file lists the user picks in the file dialog of #chat-file-input
ChatSelections == {<<NotesPdf>>, <<VirusExe, EssayDocx>>, <<NotesPdf, EssayDocx, Readme>>}

\* a file chip of #chat-attached-files with the text of its status element
Chip(name, status) == [name |-> name, status |-> status]

\* displayAttachedFiles: the container is rendered anew, one chip per attached file,
\* every status element with its initial text
DisplayAttachedFiles(files) == [k \in 1..Len(files) |-> Chip(files[k].name, "attached")]

\* updateFileStatus: the first element with id status-<filename>, if there is one
UpdateFileStatus(chips, filename, status) ==
    LET found == {k \in 1..Len(chips) : chips[k].name = filename}
    IN  IF found = {} THEN chips
        ELSE LET first == CHOOSE k \in found : \A m \in found : k <= m
             IN  [chips EXCEPT ![first].status = status]

\* the text of the system message added after a successful upload
UploadedText(file) ==
    <<Word("Document uploaded:", 18)>> \o [k \in 1..Len(file.name) |-> Word(file.name[k], 1)]

\* a call of uploadChatFiles(files): while running it is suspended at the request of
\* files[i]; sent lists the files whose request it has issued
ChatUpload(files, i, sent) == [files |-> files, i |-> i, sent |-> sent, running |-> TRUE]

\* the change event of #chat-file-input: handleChatFileUpload, with uploadChatFiles
\* up to its first await
HandleChatFileUpload ==
    /\ chatSelections < MaxSelections
    /\ chatSelections' = chatSelections + 1
    /\ \E files \in ChatSelections :
          /\ attachedFiles' = files
          /\ fileChips' = UpdateFileStatus(DisplayAttachedFiles(files), files[1].name,
                                           "uploading")
          /\ chatUploads' = Append(chatUploads,
                                   ChatUpload(files, 1, IssueRequest(<<>>, files, 1)))
    /\ UNCHANGED <<shellVars, apiVars, tutorVars, profileVars, fileVars, dashVars,
                   storeVars, exportVars, renderVars, statsVars, raceVars, pageVars, batchVars, envVars, docVars>>

\* the catch block of uploadChatFiles, around the whole loop: a toast only, the
\* status elements are left as they are
UploadCatch(chips, filename) == chips

\* the request of a running uploadChatFiles resolves: the rest of the loop body, then
\* either the next file up to its request, or the end of the function
ChatUploadResponse ==
    /\ \E r \in {k \in 1..Len(chatUploads) : chatUploads[k].running}, o \in UploadOutcomes :
          LET run == chatUploads[r]
              file == run.files[run.i]
              ended == [chatUploads EXCEPT ![r].running = FALSE]
          IN  IF o.kind = "json" THEN
                  LET chips == UpdateFileStatus(fileChips, file.name,
                                                IF o.success THEN "success" ELSE "error")
                  IN  /\ chatView' = IF o.success
                                     THEN Append(chatView,
                                                 Msg("system", UploadedText(file), FALSE))
                                     ELSE chatView
                      /\ toast' = IF o.success THEN toast
                                  ELSE Toast("Failed to upload", "error")
                      /\ IF run.i < Len(run.files) THEN
                            /\ fileChips' = UpdateFileStatus(chips, run.files[run.i + 1].name,
                                                             "uploading")
                            /\ chatUploads' =
                                  [chatUploads EXCEPT ![r] =
                                      ChatUpload(run.files, run.i + 1,
                                                 IssueRequest(run.sent, run.files, run.i + 1))]
                         ELSE
                            /\ fileChips' = chips
                            /\ chatUploads' = ended
              ELSE
                  /\ fileChips' = UploadCatch(fileChips, file.name)
                  /\ toast' = Toast("Failed to upload files", "error")
                  /\ chatUploads' = ended
                  /\ UNCHANGED chatView
    /\ UNCHANGED <<attachedFiles, chatSelections>>
    /\ UNCHANGED <<isTyping, messageInput, messageHistory, messageCount, sendDisabled,
                   errorModalDisplay, historyPending, tutorInFlight, tutorIssued, sendsDone,
                   lastOutcome, lastSendEffect>>
    /\ UNCHANGED <<goals, goalInput, preferences, pendingConfirmAction, modalDisplay,
                   cbCount, cbStatus, cbInvoked, cbBadInvoke, docRequests>>
    /\ UNCHANGED <<shellVars, apiVars, fileVars, dashVars, storeVars, exportVars,
                   renderVars, statsVars, raceVars, pageVars, batchVars, envVars, docVars>>

\* the remove button of a chip: removeAttachedFile(filename)
RemoveAttachedFile ==
    /\ \E k \in 1..Len(fileChips) :
          LET kept == SelectIdx(attachedFiles,
                                {m \in 1..Len(attachedFiles) :
                                    attachedFiles[m].name # fileChips[k].name}, 1)
          IN  /\ attachedFiles' = kept
              /\ fileChips' = DisplayAttachedFiles(kept)
    /\ UNCHANGED <<chatUploads, chatSelections>>
    /\ UNCHANGED <<shellVars, apiVars, tutorVars, profileVars, fileVars, dashVars,
                   storeVars, exportVars, renderVars, statsVars, raceVars, pageVars, batchVars, envVars, docVars>>

-----------------------------------------------------------------------------
(* Tutor controller: page loads (part_000 331-348, 861-865) *)

\* the user reloads the tutor page, or comes back to it: AcadefyApp.init, then a new
\* AcadefyTutor on the template. The requests of the page that was left are never
\* answered to it; nothing is read from the stored chat_history.
TutorPageLoad ==
    /\ loadCount < MaxLoads
    /\ loadCount' = loadCount + 1
    /\ sessionId' = LoadedSessionId(localStorage, idClock)
    /\ localStorage' = LoadedStorage(localStorage, idClock)
    /\ idClock' = LoadedClock(localStorage, idClock)
    /\ genOnStored' = (genOnStored \/ (LoadedClock(localStorage, idClock) # idClock
                                        /\ localStorage[SessionKey] # Null))
    /\ heldIds' = heldIds \cup {LoadedSessionId(localStorage, idClock)}
    /\ isTyping' = FALSE
    /\ messageInput' = <<>>
    /\ chatView' = <<Welcome>>
    /\ messageHistory' = <<>>
    /\ messageCount' = 0
    /\ sendDisabled' = TRUE
    /\ errorModalDisplay' = "none"
    /\ historyPending' = TRUE
    /\ tutorInFlight' = <<>>
    /\ lastOutcome' = "none"
    /\ lastSendEffect' = [trigger |-> "none", effect |-> "none"]
    /\ historyLate' = FALSE
    /\ historyReceived' = Null
    /\ attachedFiles' = <<>>
    /\ fileChips' = <<>>
    /\ chatUploads' = <<>>
    /\ toast' = Null
    /\ UNCHANGED <<clearCount, tutorIssued, sendsDone, chatSelections>>
    /\ UNCHANGED <<goals, goalInput, preferences, pendingConfirmAction, modalDisplay,
                   cbCount, cbStatus, cbInvoked, cbBadInvoke, docRequests>>
    /\ UNCHANGED <<apiVars, fileVars, dashVars, storeVars, exportVars, renderVars, statsVars,
                   pageVars, batchVars, envVars, docVars>>

-----------------------------------------------------------------------------
(* Profile controller: the reference documents list *)

MaxDocOps == 2

\* the document lists the backend can hold
DocumentLists == {<<"doc1">>, <<"doc1", "doc2">>}

\* what the backend can answer to GET /documents
ListOutcomes ==
    {NetErr,
     Resp(200, [parses |-> TRUE, value |-> Null]),
     Resp(200, [parses |-> TRUE, value |-> [error |-> "server says no"]])}
    \cup {Resp(200, [parses |-> TRUE, value |-> [documents |-> d]]) : d \in DocumentLists}

\* what the backend can answer to an add or a DELETE request
ChangeOutcomes ==
    {NetErr,
     Resp(500, [parses |-> TRUE, value |-> [error |-> "server says no"]]),
     Resp(200, [parses |-> TRUE, value |-> [success |-> TRUE]])}

\* loadDocuments line 412: response.success && response.data.documents; the read of
\* a null data throws and is caught by loadDocuments
HasDocuments(r) ==
    /\ r.success
    /\ r.data # Null
    /\ "documents" \in DOMAIN r.data

\* renderDocuments: #documents-list shows the documents of one response; from is the
\* number of the request that this response answers
RenderDocuments(n, documents) == [from |-> n, documents |-> documents]

\* the add and delete requests in flight
ChangesInFlight == Cardinality({k \in 1..Len(docRequests) : docRequests[k].op # "list"})

\* addDocumentFromUrl and addDocumentFromText up to their await
AddDocument(op, missing, prompt) ==
    /\ listIssued + ChangesInFlight < 1 + MaxDocOps
    /\ IF missing THEN
          /\ toast' = Toast(prompt, "error")
          /\ UNCHANGED docRequests
       ELSE
          /\ toast' = Toast("Adding document...", "info")
          /\ docRequests' = Append(docRequests, [op |-> op])
    /\ UNCHANGED <<goals, goalInput, preferences, pendingConfirmAction, modalDisplay,
                   cbCount, cbStatus, cbInvoked, cbBadInvoke>>
    /\ UNCHANGED <<shellVars, apiVars, tutorVars, fileVars, dashVars, storeVars, exportVars, renderVars, statsVars, raceVars, attachVars, pageVars, batchVars, envVars, docVars>>

\* addDocumentFromUrl: the URL field is empty after trim, or holds a URL
AddDocumentFromUrl ==
    \E url \in {<<Space(1)>>, <<Word("url", 19)>>} :
       AddDocument("add-url", Trim(url) = <<>>, "Please enter a valid URL")

\* addDocumentFromText: the text field, then the title field, is empty after trim
AddDocumentFromText ==
    \E text \in {<<>>, <<Word("text", 40)>>}, title \in {<<Space(2)>>, <<Word("title", 5)>>} :
       AddDocument("add-text", Trim(text) = <<>> \/ Trim(title) = <<>>,
                   IF Trim(text) = <<>> THEN "Please enter some text content"
                   ELSE "Please enter a document title")

\* the responses of requests in flight arrive in any order
Arrives(requests, k) == k \in 1..Len(requests)

\* the continuation of loadDocuments, of an add handler or of the removeDocument
\* callback when the response of its request arrives
DocResponse ==
    \E k \in 1..Len(docRequests) :
       LET req  == docRequests[k]
           rest == Splice(docRequests, k - 1)
       IN  /\ Arrives(docRequests, k)
           /\ IF req.op = "list" THEN
                 \E o \in ListOutcomes :
                    LET r == ApiRequest(o) IN
                    /\ docRequests' = rest
                    /\ IF HasDocuments(r) THEN
                          /\ documentsShown' = RenderDocuments(req.n, r.data.documents)
                          /\ renderedLists' = renderedLists \cup {req.n}
                       ELSE UNCHANGED <<documentsShown, renderedLists>>
                    /\ UNCHANGED <<toast, listIssued>>
              ELSE
                 \E o \in ChangeOutcomes :
                    LET r == ApiRequest(o) IN
                    /\ IF r.success THEN
                          /\ toast' = Toast(IF req.op = "delete"
                                            THEN "Document removed successfully"
                                            ELSE "Document added successfully!", "success")
                          /\ docRequests' = LoadDocuments(rest, listIssued)
                          /\ listIssued' = listIssued + 1
                       ELSE
                          /\ toast' = Toast(IF req.op = "delete"
                                            THEN "Failed to remove document"
                                            ELSE "Failed to add document", "error")
                          /\ docRequests' = rest
                          /\ UNCHANGED listIssued
                    /\ UNCHANGED <<documentsShown, renderedLists>>
    /\ UNCHANGED <<goals, goalInput, preferences, pendingConfirmAction, modalDisplay,
                   cbCount, cbStatus, cbInvoked, cbBadInvoke>>
    /\ UNCHANGED <<shellVars, apiVars, tutorVars, fileVars, dashVars, storeVars, exportVars, renderVars, statsVars, raceVars, attachVars, pageVars, batchVars, envVars>>

-----------------------------------------------------------------------------
(* Initial states: the page has loaded once on an empty storage *)

\* what the page templates may hold before any script runs
ChatTemplates == {<<>>, <<Welcome>>}

\* The page has loaded once on an empty storage and the controllers are constructed.
\* A specification explores one controller: it draws that controller's template
\* states and fixes the others.
InitWith(chatViews, buttonStates, uploadButtonStates, storages, pages, throwing) ==
    \* AcadefyApp, init, generateSessionId
    /\ localStorage \in {[ls EXCEPT ![SessionKey] = RawItem(SessionIdValue(1))] :
                            ls \in storages}
    /\ sessionId = SessionIdValue(1)
    /\ idClock = 1
    /\ loadCount = 1
    /\ clearCount = 0
    /\ heldIds = {SessionIdValue(1)}
    /\ genOnStored = FALSE
    \* no apiRequest call is being followed
    /\ apiPc = "idle"
    /\ apiEndpoint = "/progress"
    /\ apiOutcome = NetErr
    /\ apiRet = Null
    \* AcadefyTutor constructor and init: the history request is in flight
    /\ isTyping = FALSE
    /\ messageInput = <<>>
    /\ chatView \in chatViews
    /\ messageHistory = <<>>
    /\ messageCount = 0
    /\ sendDisabled \in buttonStates
    /\ errorModalDisplay = "none"
    /\ historyPending = TRUE
    /\ tutorInFlight = <<>>
    /\ tutorIssued = 0
    /\ sendsDone = 0
    /\ lastOutcome = "none"
    /\ lastSendEffect = [trigger |-> "none", effect |-> "none"]
    \* AcadefyProfile constructor and init
    /\ goals = StorageGet(localStorage, "learning_goals", DefaultGoals)
    /\ goalInput = <<>>
    /\ preferences = StorageGet(localStorage, "user_preferences", DefaultPrefs)
    /\ pendingConfirmAction = Null
    /\ modalDisplay = "none"
    /\ cbCount = 0
    /\ cbStatus = <<>>
    /\ cbInvoked = <<>>
    /\ cbBadInvoke = FALSE
    /\ toast = Null
    \* AcadefyProfile init: loadDocuments has issued the first list request
    /\ docRequests = <<ListRequest(1)>>
    /\ listIssued = 1
    /\ documentsShown = Null
    /\ renderedLists = {}
    /\ fileInputFiles = <<>>
    /\ selectedFilesShown = <<>>
    /\ uploadBtnDisabled \in uploadButtonStates
    /\ lastValidation = Null
    /\ upload = Null
    /\ uploadSent = <<>>
    /\ uploadDone = Null
    \* AcadefyDashboard constructor and init
    /\ progressData = Null
    /\ recommendationsData = Null
    /\ analyticsData = Null
    /\ loadingDisplay = "block"
    /\ contentDisplay = "none"
    /\ emptyDisplay = "none"
    /\ loads = <<InitialLoad>>
    /\ loadsStarted = 1
    /\ lastLoad = Null
    \* no storage wrapper call is being followed
    /\ storageCall = Null
    \* nothing was downloaded
    /\ downloads = <<>>
    \* no progress item was rendered
    /\ progressItem = Null
    \* AcadefyProfile init: loadStatistics has issued its first request
    /\ statsLoad = [pc |-> "progress"]
    /\ statistics = EmptyStatistics
    /\ statsView = Null
    \* no history answer yet
    /\ historyLate = FALSE
    /\ historyReceived = Null
    /\ attachedFiles = <<>>
    /\ fileChips = <<>>
    /\ chatUploads = <<>>
    /\ chatSelections = 0
    /\ page \in pages
    /\ setItemThrows \in throwing

-----------------------------------------------------------------------------
(* Specifications *)

ApiNext == ApiCall \/ ApiFetchSettles \/ ApiJsonSettles \/ ApiConsumed
SpecApi == InitWith({<<Welcome>>}, {TRUE}, {TRUE}, {EmptyStorage}, {"tutor"}, {FALSE}) /\ [][ApiNext]_vars

TutorNext ==
    \/ TypeMessage
    \/ ClickSend
    \/ EnterKey
    \/ GlobalSend
    \/ TutorResponse
    \/ CloseErrorModal
    \/ HistoryResponse
SpecTutor == InitWith(ChatTemplates, BOOLEAN, {TRUE}, {EmptyStorage}, {"tutor"}, {FALSE}) /\ [][TutorNext]_vars

\* the network answers every request it was sent
SpecTutorFair ==
    /\ InitWith({<<Welcome>>}, {TRUE}, {TRUE}, {EmptyStorage}, {"tutor"}, {FALSE})
    /\ [][TutorNext]_vars
    /\ WF_vars(TutorResponse)
    /\ WF_vars(HistoryResponse)

\* the goal list and the dialog that removes from it
GoalsNext ==
    \/ AddGoalAny
    \/ EditGoal
    \/ RemoveGoal
    \/ CloseConfirmationModal
    \/ ConfirmAction
SpecGoals == InitWith({<<Welcome>>}, {TRUE}, {TRUE}, {EmptyStorage}, {"profile"}, {FALSE}) /\ [][GoalsNext]_vars

\* the same on a page whose localStorage may refuse writes
SpecGoalsEnv ==
    InitWith({<<Welcome>>}, {TRUE}, {TRUE}, {EmptyStorage}, {"profile"}, BOOLEAN)
       /\ [][GoalsNext]_vars

\* the confirmation dialog with all its users, and page loads
ModalNext ==
    \/ ChangePreference
    \/ RemoveGoal
    \/ ResetPreferences
    \/ ClearHistory
    \/ ResetProgress
    \/ RemoveDocument
    \/ CloseConfirmationModal
    \/ EscapeKey
    \/ ConfirmAction
    \/ ProfilePageLoad
SpecModal == InitWith({<<Welcome>>}, {TRUE}, {TRUE}, {EmptyStorage}, {"profile"}, {FALSE}) /\ [][ModalNext]_vars

\* file selection and the upload of a batch
FilesNext ==
    \/ HandleFileSelection
    \/ HandleDroppedFiles
    \/ RemoveSelectedFile
    \/ AddDocumentFromFiles
    \/ UploadResponse
SpecFiles == InitWith({<<Welcome>>}, {TRUE}, BOOLEAN, {EmptyStorage}, {"profile"}, {FALSE}) /\ [][FilesNext]_vars

\* the dashboard: the initial load sequence and refreshes
DashNext == GlobalRefresh \/ RefreshClick \/ DashResponse
SpecDash == InitWith({<<Welcome>>}, {TRUE}, {TRUE}, {EmptyStorage}, {"dashboard"}, {FALSE}) /\ [][DashNext]_vars

\* the storage wrapper on any storage content
StorageNext ==
    \/ StorageSetCall
    \/ StorageGetCall
    \/ StorageRemoveCall
    \/ StorageClearCall
SpecStorage == InitWith({<<Welcome>>}, {TRUE}, {TRUE}, AnyStorages, {"profile"}, {FALSE}) /\ [][StorageNext]_vars

\* the chat with its history: sends, the history load, clearing and exporting
ChatNext ==
    \/ TypeMessage
    \/ EnterKey
    \/ TutorResponse
    \/ HistoryResponse
    \/ ClearChat
    \/ ExportChat
SpecChat == InitWith({<<Welcome>>}, {TRUE}, {TRUE}, {EmptyStorage}, {"tutor"}, {FALSE}) /\ [][ChatNext]_vars

\* rendering progress items of any accuracy
RenderNext == CreateProgressItem
SpecRender == InitWith({<<Welcome>>}, {TRUE}, {TRUE}, {EmptyStorage}, {"dashboard"}, {FALSE}) /\ [][RenderNext]_vars

\* the statistics of the profile page
StatsNext == StatsProgressResponse \/ StatsAnalyticsResponse
SpecStats == InitWith({<<Welcome>>}, {TRUE}, {TRUE}, {EmptyStorage}, {"profile"}, {FALSE}) /\ [][StatsNext]_vars

\* the tutor's attachments: selections, the upload loop, chip removal
AttachNext == HandleChatFileUpload \/ ChatUploadResponse \/ RemoveAttachedFile
SpecAttach == InitWith({<<Welcome>>}, {TRUE}, {TRUE}, {EmptyStorage}, {"tutor"}, {FALSE}) /\ [][AttachNext]_vars

\* the upload loops of both controllers: the profile's file form and the tutor's
\* attachments
UploadsNext ==
    \/ page = "profile" /\ HandleFileSelection
    \/ page = "profile" /\ AddDocumentFromFiles
    \/ page = "profile" /\ UploadResponse
    \/ page = "tutor" /\ HandleChatFileUpload
    \/ page = "tutor" /\ ChatUploadResponse
SpecUploads ==
    InitWith({<<Welcome>>}, {TRUE}, {FALSE}, {EmptyStorage}, {"profile", "tutor"}, {FALSE})
        /\ [][UploadsNext]_vars

\* the chat over several loads of the tutor page, without clearChat
ReloadNext ==
    \/ TypeMessage
    \/ EnterKey
    \/ TutorResponse
    \/ HistoryResponse
    \/ TutorPageLoad
SpecReload ==
    InitWith({<<Welcome>>}, {TRUE}, {TRUE}, {EmptyStorage}, {"tutor"}, {FALSE})
       /\ [][ReloadNext]_vars


\* the reference documents: adds, removals and the list requests they start
DocsNext ==
    \/ AddDocumentFromUrl
    \/ AddDocumentFromText
    \/ RemoveDocument
    \/ CloseConfirmationModal
    \/ ConfirmAction
    \/ DocResponse
SpecDocs == InitWith({<<Welcome>>}, {TRUE}, {TRUE}, {EmptyStorage}, {"profile"}, {FALSE}) /\ [][DocsNext]_vars

-----------------------------------------------------------------------------
(* Properties *)

\* C1: sendMessage called while a send is pending (isTyping) appends nothing to the
\* chat view, leaves the input as it is and issues no /tutor request, whatever the
\* trigger; so at most one /tutor request is in flight at any time.
C1_BusySendIsNoOp ==
    /\ [](Len(tutorInFlight) <= 1)
    /\ [][(isTyping /\ (ClickSend \/ EnterKey \/ GlobalSend))
            => UNCHANGED <<chatView, messageInput, tutorInFlight, tutorIssued>>]_vars

\* a send was attempted with text in the box while another was pending, and ignored
C1_Witness ==
    /\ isTyping
    /\ Len(tutorInFlight) = 1
    /\ Trim(messageInput) # <<>>
    /\ lastSendEffect.effect = "ignored: busy"

\* C2: every started send returns the controller to idle, whether the /tutor call
\* gives a success result, a failure result or an exception, and a send with
\* non-empty text is then accepted again.
C2_SendReturnsToIdle ==
    /\ isTyping ~> ~isTyping
    /\ [](tutorInFlight = <<>> => ~isTyping)
    /\ [][(~isTyping /\ Trim(messageInput) # <<>> /\ (ClickSend \/ EnterKey \/ GlobalSend))
            => (isTyping' /\ tutorIssued' = tutorIssued + 1)]_vars

\* a send ended in the catch block and the next send was accepted
C2_Witness ==
    /\ lastOutcome = "exception"
    /\ sendsDone = 1
    /\ tutorIssued = 2
    /\ isTyping

\* C4: apiRequest returns a result object for every outcome of fetch and json():
\* success with the data exactly for a 2xx status with a parseable body, and a
\* failure with an error otherwise; it never throws.
C4_ApiRequestResult ==
    apiPc = "returned" =>
        /\ ~apiRet.thrown
        /\ apiRet.success <=> (/\ apiOutcome.kind = "resp"
                               /\ apiOutcome.status \in 200..299
                               /\ apiOutcome.body.parses)
        /\ apiRet.success => apiRet.data = apiOutcome.body.value
        /\ ~apiRet.success => "error" \in DOMAIN apiRet

\* a 200 response whose body does not parse came back as a failure result
C4_Witness ==
    /\ apiPc = "returned"
    /\ apiOutcome.kind = "resp"
    /\ apiOutcome.status = 200
    /\ ~apiOutcome.body.parses
    /\ apiRet.success = FALSE

C5_CallbackAtMostOnce ==
    /\ ~cbBadInvoke
    /\ \A i \in 1..Len(cbInvoked) :
          /\ cbInvoked[i] <= 1
          /\ cbInvoked[i] = 1 => cbStatus[i] = "fired"
    /\ pendingConfirmAction # Null => cbStatus[pendingConfirmAction.id] = "pending"

\* one dialog was cancelled, one replaced, one confirmed
C5_Witness ==
    /\ cbStatus = <<"cancelled", "replaced", "fired">>
    /\ cbInvoked = <<0, 0, 1>>
    /\ pendingConfirmAction = Null

\* C8: addGoal with an empty trimmed text or one longer than 100 characters shows an
\* error toast and changes neither the goal list nor the stored learning_goals;
\* with 1 to 100 characters it appends exactly the trimmed text.
C8_AddGoalValidation ==
    [][\A text \in GoalInputs :
          AddGoal(text) =>
             IF StrLen(Trim(text)) >= 1 /\ StrLen(Trim(text)) <= 100
             THEN goals' = Append(goals, Trim(text))
             ELSE /\ toast'.type = "error"
                  /\ goals' = goals
                  /\ localStorage'[Prefixed("learning_goals")]
                        = localStorage[Prefixed("learning_goals")]]_vars

\* a 100-character goal is the last of the list and a 101-character one was refused
C8_Witness ==
    /\ goals # <<>>
    /\ goals[Len(goals)] = <<Word("x", 100)>>
    /\ StrLen(goalInput) = 101
    /\ toast = Toast("Goal is too long (max 100 characters)", "error")
    /\ localStorage[Prefixed("learning_goals")] = JsonStringify(goals)


\* C7: validateAndDisplayFiles accepts no file of a batch of more than 5; of a batch
\* of at most 5 it accepts exactly the files whose extension (the text after the last
\* dot of the name, in any letter case) is pdf, docx, pptx or txt and whose size is at
\* most 10MB, in their original order, and reports exactly one error, naming the
\* file, for each other file.
C7_ValidationAcceptance ==
    lastValidation # Null =>
       LET batch == lastValidation.batch
           ok == {i \in 1..Len(batch) :
                     /\ ToLowerCase(batch[i].name[Len(batch[i].name)])
                           \in {"pdf", "docx", "pptx", "txt"}
                     /\ batch[i].size <= 10485760}
           others == SelectIdx(batch, (1..Len(batch)) \ ok, 1)
       IN  IF Len(batch) > 5 THEN lastValidation.accepted = <<>>
           ELSE /\ lastValidation.accepted = SelectIdx(batch, ok, 1)
                /\ Len(lastValidation.errors) = Len(others)
                /\ \A i \in 1..Len(others) : lastValidation.errors[i].file = others[i].name

\* the batch of 3 valid, 1 oversized and 1 wrong-extension files gave 3 accepted
\* files, the 10MB one among them, and 2 errors
C7_Witness ==
    /\ lastValidation # Null
    /\ lastValidation.batch = MixedBatch
    /\ lastValidation.accepted = <<NotesPdf, ReportPDF, EssayDocx>>
    /\ Len(lastValidation.errors) = 2
    /\ selectedFilesShown = lastValidation.accepted

\* C6: no file that the last validateAndDisplayFiles rejected (unsupported extension,
\* larger than 10MB, or part of a batch of more than 5 files) is sent to
\* /upload-direct by the addDocumentFromFiles that follows it.
C6_RejectedNeverUploaded ==
    lastValidation # Null =>
       \A k \in 1..Len(uploadSent) :
          \/ \E i \in 1..Len(lastValidation.accepted) :
                lastValidation.accepted[i] = uploadSent[k]
          \/ \A i \in 1..Len(lastValidation.batch) :
                lastValidation.batch[i] # uploadSent[k]


\* C9: when a load sequence that no other sequence overlapped completes, the content
\* view is displayed if and only if the progress fetch of that sequence returned a
\* progress list with at least one entry; if it returned an empty list the
\* empty-state view is displayed and the content view is not.
C9_ContentIffProgress ==
    (lastLoad # Null /\ ~lastLoad.overlapped) =>
       LET fetched == lastLoad.results[1] IN
       /\ (lastLoad.content = "block") <=>
             (/\ fetched.success
              /\ "progress" \in DOMAIN fetched.data
              /\ Len(fetched.data.progress) >= 1)
       /\ (fetched.success /\ fetched.data = NoProgress) =>
             (lastLoad.empty = "block" /\ lastLoad.content # "block")

\* C10: in every load sequence a failed fetch leaves its own field unset when the
\* display decision is made, and the fetches of the sequence are issued in the order
\* progress, recommendations, analytics whatever their outcomes.
C10_FailedFetchFieldUnset ==
    lastLoad # Null =>
       /\ lastLoad.issued = <<"/progress", "/recommendations", "/analytics">>
       /\ \A j \in 1..3 : ~lastLoad.results[j].success => lastLoad.fields[j] = Null


\* C11: storage.clear() removes every local-storage key that starts with the
\* acadefy_ prefix, the session id key included, and leaves every other key and
\* its value unchanged, whatever keys are present.
C11_ClearRemovesPrefixedOnly ==
    [][(StorageClearCall /\ storageCall'.ret = TRUE) =>
          \A k \in StorageKeys :
             IF k[1] = "acadefy_" THEN localStorage'[k] = Null
             ELSE localStorage'[k] = localStorage[k]]_vars

\* a clear ran on a storage that held keys of other scripts, one of them with the
\* prefix text inside its name: those are kept, the application's keys are gone
C11_Witness ==
    /\ storageCall # Null
    /\ storageCall.op = "clear"
    /\ storageCall.ret = TRUE
    /\ localStorage[InfixKey] # Null
    /\ localStorage[NoUnderscoreKey] # Null
    /\ localStorage[OtherKey] # Null
    /\ \A name \in AppKeyNames : localStorage[Prefixed(name)] = Null

\* C12: the storage wrapper never throws to its caller: when the underlying
\* local-storage or JSON operation fails, set, remove and clear return false, get
\* returns the supplied default value, and the stored state is left as it was.
C12_WrapperNeverThrows ==
    /\ [](storageCall # Null =>
            /\ ~storageCall.thrown
            /\ storageCall.fault =>
                  IF storageCall.op = "get" THEN storageCall.ret = storageCall.arg
                  ELSE storageCall.ret = FALSE)
    /\ [][(storageCall' # storageCall /\ storageCall'.fault) =>
             localStorage' = localStorage]_vars

\* a get of the chat history that does not parse gave the default
C12_Witness ==
    /\ storageCall # Null
    /\ storageCall.op = "get"
    /\ storageCall.key = "chat_history"
    /\ localStorage[Prefixed("chat_history")] = CorruptItem
    /\ storageCall.fault
    /\ storageCall.ret = <<"fallback">>


\* C13: exportChat with an empty messageHistory shows an informational toast and
\* triggers no download; with N > 0 pairs it triggers exactly one download, whose
\* messages list holds exactly those N pairs in order, together with the session id.
C13_ExportChat ==
    [][ExportChat =>
          IF Len(messageHistory) = 0
          THEN /\ downloads' = downloads
               /\ toast'.type = "info"
          ELSE /\ Len(downloads') = Len(downloads) + 1
               /\ SubSeq(downloads', 1, Len(downloads)) = downloads
               /\ JsonParse(downloads'[Len(downloads')].data).messages = messageHistory
               /\ JsonParse(downloads'[Len(downloads')].data).sessionId = sessionId]_vars

\* a chat of one pair was exported, then one of two pairs
C13_Witness ==
    /\ Len(downloads) = 1
    /\ Len(JsonParse(downloads[1].data).messages) = 2
    /\ JsonParse(downloads[1].data).messages = messageHistory
    /\ toast = Toast("Chat exported successfully", "success")


\* C14: createProgressItem picks the colour by fixed thresholds: accuracy >= 80 gives
\* the secondary colour, 60 <= accuracy < 80 the accent colour, accuracy < 60 the
\* danger colour; 80 and 60 themselves fall in the upper band.
C14_ColourBands ==
    progressItem # Null =>
       LET accuracy == progressItem.accuracy_rate
           colour == progressItem.accuracyColor
       IN  /\ accuracy >= 800 => colour = "var(--secondary-color)"
           /\ (accuracy >= 600 /\ accuracy < 800) => colour = "var(--accent-color)"
           /\ accuracy < 600 => colour = "var(--danger-color)"

\* an item of accuracy 80.0 was rendered in the secondary colour
C14_Witness ==
    /\ progressItem # Null
    /\ progressItem.accuracy_rate = 800
    /\ progressItem.accuracyColor = "var(--secondary-color)"


\* C15, as stated: in loadStatistics, if either of the two fetches (progress, analytics) fails,
\* the statistics view is rendered with all four values equal to zero, and no error
\* propagates to the caller.
C15_FailedFetchAllZero ==
    (statsLoad.pc = "done"
        /\ (~statsLoad.progressResponse.success \/ ~statsLoad.analyticsResponse.success)) =>
       /\ ~statsLoad.thrown
       /\ statsView = [daysActive |-> 0, totalMessages |-> 0, subjectsExplored |-> 0,
                       achievements |-> 0]


C17_PairsBeforeWelcome ==
    [][(HistoryResponse /\ historyReceived' # Null) =>
          \A i, j \in 1..Len(chatView') :
             (chatView'[i] = Welcome /\ chatView'[j].content # WelcomeText) => j < i]_vars

\* C17, amended: when loadChatHistory receives the prior pairs, it empties the chat
\* view, puts back the first ai message that was in it (the static welcome message
\* of the template) and only then renders the pairs after it, in their order; when
\* it receives no history list the view is left as it was.
C17_WelcomeThenPairs ==
    [][HistoryResponse =>
          IF historyReceived' = Null THEN chatView' = chatView
          ELSE LET history == historyReceived'.history
                   ais == {i \in 1..Len(chatView) : chatView[i].type = "ai"}
                   kept == IF ais = {} THEN 0 ELSE 1
               IN  /\ Len(chatView') = kept + 2 * Len(history)
                   /\ kept = 1 => /\ chatView'[1] \in {chatView[i] : i \in ais}
                                  /\ \A i \in ais : \E j \in ais :
                                        j <= i /\ chatView[j] = chatView'[1]
                   /\ \A k \in 1..Len(history) :
                         /\ chatView'[kept + 2 * k - 1]
                               = Msg("user", history[k].user_message, FALSE)
                         /\ chatView'[kept + 2 * k]
                               = Msg("ai", history[k].ai_response, FALSE)]_vars

\* the pair of the history stands after the welcome message
C17_Witness ==
    /\ historyReceived # Null
    /\ Len(historyReceived.history) = 1
    /\ ~historyPending
    /\ Len(chatView) = 3
    /\ chatView[1] = Welcome
    /\ chatView[2] = Msg("user", HistoryPair.user_message, FALSE)
    /\ chatView[3] = Msg("ai", HistoryPair.ai_response, FALSE)


\* C15, amended: in loadStatistics a failed fetch leaves its own values at zero: when
\* the progress fetch fails, subjects explored and total messages are rendered as
\* zero; when the analytics fetch fails, days active and achievements are rendered
\* as zero; when both fail all four are zero. No error propagates to the caller.
C15_FailedFetchOwnValuesZero ==
    statsLoad.pc = "done" =>
       /\ ~statsLoad.thrown
       /\ statsView # Null
       /\ ~statsLoad.progressResponse.success =>
             (statsView.subjectsExplored = 0 /\ statsView.totalMessages = 0)
       /\ ~statsLoad.analyticsResponse.success =>
             (statsView.daysActive = 0 /\ statsView.achievements = 0)

\* the progress fetch failed and the analytics answer gave two days and one achievement
C15_Witness ==
    /\ statsLoad.pc = "done"
    /\ ~statsLoad.progressResponse.success
    /\ statsLoad.analyticsResponse.success
    /\ statsView = [daysActive |-> 2, totalMessages |-> 0, subjectsExplored |-> 0,
                    achievements |-> 1]


\* C18: a history load that resolves after the user has sent new messages can leave
\* the chat view with a message shown twice: the view then holds more answers than
\* messages were sent. Nothing orders the history response before the first send, so
\* such a view is reachable (the witness), and it arises from that late response
\* only.
C18_DuplicateOnlyByLateHistory ==
    Cardinality({i \in 1..Len(chatView) : chatView[i] = Msg("ai", AiText, FALSE)})
          > tutorIssued
       => historyLate

\* one message was sent; the history answered while its request was in flight and
\* already held the exchange, then the answer arrived: it is shown twice
C18_Witness ==
    /\ Len(chatView) >= 4
    /\ chatView[1] = Welcome
    /\ tutorIssued = 1
    /\ tutorInFlight = <<>>
    /\ historyLate
    /\ Cardinality({i \in 1..Len(chatView) : chatView[i] = Msg("ai", AiText, FALSE)}) = 2
    /\ Cardinality({i \in 1..Len(chatView) : chatView[i].type = "user"}) = 1


\* C19: in the tutor's attachment flow every file of a selected batch reaches a terminal
\* status (success or error), whatever happens to the other files, also when the
\* upload of an earlier file fails with a network error or an unparseable response:
\* once the upload of a batch is over, with no chip removed and no other selection
\* made, every chip of the batch shows success or error.
C19_EveryFileTerminal ==
    (/\ chatSelections = 1
     /\ ~chatUploads[1].running
     /\ attachedFiles = chatUploads[1].files)
       => \A k \in 1..Len(fileChips) : fileChips[k].status \in {"success", "error"}


\* C20: within one upload batch, of the profile's addDocumentFromFiles and of the
\* tutor's uploadChatFiles, the uploads are strictly sequential: the requests issued
\* so far are those of the first i files, in list order, all but the last of them
\* resolved, so that at most one request of the batch is in flight.
C20_UploadsSequential ==
    /\ upload # Null =>
          /\ uploadSent = SubSeq(upload.files, 1, upload.i)
          /\ Len(uploadSent) - Len(upload.results) = 1
    /\ \A r \in 1..Len(chatUploads) :
          /\ chatUploads[r].sent = SubSeq(chatUploads[r].files, 1, chatUploads[r].i)
          /\ chatUploads[r].i <= Len(chatUploads[r].files)

\* the tutor's loop has reached the third file of its batch: three requests issued,
\* two of them resolved
C20_Witness ==
    /\ page = "tutor"
    /\ \E r \in 1..Len(chatUploads) :
          /\ chatUploads[r].running
          /\ chatUploads[r].i = 3
          /\ chatUploads[r].sent = chatUploads[r].files


\* C21: in addDocumentFromFiles every file of the batch is attempted and reported
\* exactly once, whatever the outcome of earlier files: while the loop runs the
\* results list holds one entry, in order, for each file before the one in flight and
\* the button is disabled; when the batch ends the list holds one entry per file in
\* order, every file was sent, and the upload button is enabled again.
C21_EveryFileReportedOnce ==
    /\ upload # Null =>
          /\ uploadBtnDisabled
          /\ Len(upload.results) = upload.i - 1
          /\ \A k \in 1..Len(upload.results) : upload.results[k].file = upload.files[k].name
    /\ [][UploadResponse =>
             IF upload' # Null
             THEN /\ upload'.i = upload.i + 1
                  /\ SubSeq(upload'.results, 1, Len(upload.results)) = upload.results
             ELSE /\ ~uploadBtnDisabled'
                  /\ uploadDone'.files = upload.files
                  /\ uploadSent' = upload.files
                  /\ Len(uploadDone'.results) = Len(upload.files)
                  /\ SubSeq(uploadDone'.results, 1, Len(upload.results)) = upload.results
                  /\ \A k \in 1..Len(upload.files) :
                        /\ uploadDone'.results[k].file = upload.files[k].name
                        /\ uploadDone'.results[k].success \in BOOLEAN]_vars

\* a batch of three ended with its first upload failed and the two after it done
C21_Witness ==
    /\ upload = Null
    /\ uploadDone # Null
    /\ ~uploadBtnDisabled
    /\ Len(uploadDone.files) = 3
    /\ ~uploadDone.results[1].success
    /\ uploadDone.results[2].success
    /\ uploadDone.results[3].success


\* C22: after any sequence of completed goal mutations (addGoal, editGoal, confirmed
\* removeGoal) the stored learning_goals list equals the in-memory goal list, element
\* for element and in the same order; a rejected add, a cancelled or empty edit and a
\* cancelled removal leave both unchanged.
C22_StoredGoalsEqualMemory ==
    /\ [][goals' # goals =>
             /\ localStorage'[Prefixed("learning_goals")] # Null
             /\ JsonParse(localStorage'[Prefixed("learning_goals")]) = goals']_vars
    /\ [][(goals' = goals /\ (AddGoalAny \/ EditGoal \/ CloseConfirmationModal)) =>
             localStorage'[Prefixed("learning_goals")]
                = localStorage[Prefixed("learning_goals")]]_vars


\* C23: on the dashboard at most one of the three views (loading, content,
\* empty-state) is displayed at every moment, and once no load sequence is in flight
\* exactly one of content and empty-state is displayed, for any number of overlapping
\* load sequences and any order in which their fetches resolve.
C23_ViewsExclusive ==
    /\ Cardinality({v \in {"loading", "content", "empty"} :
                      CASE v = "loading" -> loadingDisplay = "block"
                        [] v = "content" -> contentDisplay = "block"
                        [] v = "empty" -> emptyDisplay = "block"}) <= 1
    /\ loads = <<>> => (contentDisplay = "block") # (emptyDisplay = "block")


\* C24: a successful send never makes the stored chat_history shorter: across page
\* loads and successful sends, the pairs already stored under chat_history remain a
\* prefix of the stored list after each send.
C24_StoredHistoryGrows ==
    [][(TutorResponse /\ lastOutcome' = "success") =>
          LET before == StorageGet(localStorage, "chat_history", <<>>)
              after == StorageGet(localStorage', "chat_history", <<>>)
          IN  /\ Len(before) <= Len(after)
              /\ SubSeq(after, 1, Len(before)) = before]_vars


\* C25: a message placed in the chat view by sendMessage (the user's message, the AI
\* reply or the error bubble) stays in the view until clearChat is called; in
\* particular a loadChatHistory response that arrives after the message was displayed
\* does not remove it. Without clearChat and page loads, no element other than the
\* template's welcome message ever leaves the view.
C25_SentMessagesStay ==
    [][\A i \in 1..Len(chatView) :
          chatView[i] # Welcome => \E j \in 1..Len(chatView') : chatView'[j] = chatView[i]]_vars


\* C26: in the tutor controller messageCount always equals twice the number of pairs
\* in messageHistory, after any sequence of history loads, sends and clears; hence
\* the messageCount field of an exported chat equals twice the number of exported
\* pairs.
C26_CountIsTwicePairs ==
    /\ messageCount = 2 * Len(messageHistory)
    /\ \A d \in 1..Len(downloads) :
          JsonParse(downloads[d].data).messageCount
             = 2 * Len(JsonParse(downloads[d].data).messages)


\* C27: whenever the confirmation modal is hidden there is no pending confirm
\* callback: confirmAction, closeConfirmationModal and the shell's Escape-key
\* closeAllModals each clear pendingConfirmAction when they hide the modal.
C27_HiddenModalNoCallback ==
    modalDisplay = "none" => pendingConfirmAction = Null


\* C28: removeSelectedFile(i) removes exactly the file that is displayed at position
\* i of the selected-files list and keeps every other displayed file, for any
\* selection, also one in which some files were rejected by validation and are not
\* displayed.
C28_RemovesDisplayedFile ==
    [][\A index \in 0..(MaxFilesPerBatch - 1) :
          RemoveSelectedFileAt(index) =>
             selectedFilesShown' = Splice(selectedFilesShown, index)]_vars


\* C29: one click on the dashboard refresh control starts exactly one load sequence:
\* the inline refreshDashboard() handler and the click listener of
\* setupEventListeners do not both run loadDashboardData for that click.
C29_OneLoadPerClick ==
    [][RefreshClick => loadsStarted' = loadsStarted + 1]_vars


ListsInFlight == {k \in 1..Len(docRequests) : docRequests[k].op = "list"}

\* C30: when several loadDocuments calls overlap, the document list displayed once
\* all of them have resolved is the response to the most recently issued list
\* request, whatever the order in which the responses arrive (stated for a most
\* recent request that was answered with a document list).
C30_NewestListDisplayed ==
    (ListsInFlight = {} /\ listIssued \in renderedLists)
       => documentsShown.from = listIssued

=============================================================================
